---- MODULE Spec2Model ----
(***************************************************************************)
(* Offline-first synchronisation core of the FitTrack mobile client        *)
(* (apps/mobile/App.tsx, src/state/appState.ts, src/api/fitnessApi.ts,      *)
(* src/storage/appStore.ts) against the REST API (apps/api/src/server.ts).  *)
(*                                                                         *)
(* Modelling conventions                                                   *)
(*  - AppData is the React state `appData`; every setAppData(prev => ...)   *)
(*    updater is one operator from AppData to AppData.  The ref mirror      *)
(*    appDataRef.current is read as the committed state (no render lag).    *)
(*  - A remote call is applied by the server at the step that delivers its  *)
(*    reply.  Its outcome is "ok" (applied, success seen), "fail" (not      *)
(*    applied, failure seen) or "lost" (applied, but the client sees a      *)
(*    failure: the 4.5 s abort of fetchWithTimeout).                        *)
(*  - Record contents are version numbers: every user edit produces a       *)
(*    fresh content, numbered by the count of user actions so far.          *)
(*  - Timestamps: 0 is null; a workout's syncedAt is Now; the sync stamp    *)
(*    lastSuccessfulSyncAt alternates between two non-null values so that   *)
(*    every stamping step changes it.                                       *)
(***************************************************************************)
EXTENDS Integers, Sequences, FiniteSets, TLC

\* ---------------------------------------------------------------- bounds
MaxOps == 4
MaxInFlight == 2
MaxPasses == 2

WorkoutIds == {"w1"}
Dates == {"d1"}
ProgressIds == {"p1"}
PassDates == {"d1", "d2", "d3"}

\* ------------------------------------------------------------- constants
NULL == 0
Today == 1
Now == 1
UserId == "u1"
Token == "tok1"
NoAuth == [userId |-> "null", token |-> "null"]
DefaultSettings == [dailyReminderEnabled |-> FALSE, dailyReminderTime |-> "20:00"]

\* ------------------------------------------------------- generic helpers
Range(s) == {s[i] : i \in DOMAIN s}

Includes(items, value) == value \in Range(items)

Without(items, value) == SelectSeq(items, LAMBDA item : item # value)

withUnique(items, value) == IF Includes(items, value) THEN items ELSE Append(items, value)

Stamp(prev) == IF prev = 1 THEN 2 ELSE 1

\* Array.prototype.sort with a comparator: stable, Before(a, b) iff cmp(a, b) < 0.
SortBy(s, Before(_, _)) ==
    LET n == Len(s)
        rank(i) == Cardinality({j \in 1..n : \/ Before(s[j], s[i])
                                             \/ (~Before(s[i], s[j]) /\ j < i)})
    IN  [k \in 1..n |-> s[CHOOSE i \in 1..n : rank(i) = k - 1]]

WorkoutBeforeOldestFirst(a, b) ==
    IF a.date = b.date THEN a.createdAt < b.createdAt ELSE a.date < b.date

WorkoutBefore(a, b) ==
    IF a.date = b.date THEN a.createdAt > b.createdAt ELSE a.date > b.date

ProgressBefore(a, b) == a.date > b.date

\* ------------------------------------------------------------ the records
MakeWorkout(id, ver, syncedAt) ==
    [id |-> id, date |-> Today, createdAt |-> Now, ver |-> ver,
     exerciseEntries |-> "list", syncedAt |-> syncedAt]

MakeNutritionLog(date, ver) == [date |-> date, ver |-> ver]

MakeProgressEntry(id, ver) == [id |-> id, date |-> Today, ver |-> ver]

EmptyMap == [d \in {} |-> NULL]

EmptySync ==
    [profilePending |-> FALSE,
     nutritionPendingDates |-> <<>>,
     progressPendingIds |-> <<>>,
     deletedWorkoutIds |-> <<>>,
     deletedNutritionDates |-> <<>>,
     deletedProgressIds |-> <<>>,
     lastSuccessfulSyncAt |-> NULL]

createEmptyAppData ==
    [auth |-> NoAuth,
     profile |-> NULL,
     workouts |-> <<>>,
     nutritionByDate |-> EmptyMap,
     progressEntries |-> <<>>,
     sync |-> EmptySync,
     settings |-> DefaultSettings]

createDefaultAppData ==
    [profile |-> NULL, workouts |-> <<>>, nutritionByDate |-> EmptyMap,
     progressEntries |-> <<>>]

Ids(items) == {items[i].id : i \in DOMAIN items}

FindById(items, id) == CHOOSE i \in DOMAIN items : items[i].id = id

\* ------------------------------------------------- snapshot merge engine
MapSetAppend(m, item) == Append(m, item)

MapSet(m, item) ==
    IF item.id \in Ids(m)
    THEN [i \in DOMAIN m |-> IF m[i].id = item.id THEN item ELSE m[i]]
    ELSE Append(m, item)

RECURSIVE MapSetAll(_, _)
MapSetAll(m, items) ==
    IF items = <<>> THEN m ELSE MapSetAll(MapSet(m, Head(items)), Tail(items))

\* A merge that keeps only the local records.
mergeByIdLocalOnly(remoteItems, localItems) == MapSetAll(<<>>, localItems)

mergeByIdRemoteWins(remoteItems, localItems) ==
    MapSetAll(MapSetAll(<<>>, localItems), remoteItems)

mergeById(remoteItems, localItems) ==
    MapSetAll(MapSetAll(<<>>, remoteItems), localItems)

\* The remote rows as mergeSnapshot normalises them at time `now`.
NormalizeRemoteWorkoutAt(entry, now) ==
    [entry EXCEPT
        !.exerciseEntries = IF entry.exerciseEntries = "list" THEN "list" ELSE "empty",
        !.createdAt = IF entry.createdAt = NULL THEN now ELSE entry.createdAt,
        !.syncedAt = IF entry.syncedAt = NULL THEN now ELSE entry.syncedAt]

NormalizeRemoteWorkout(entry) == NormalizeRemoteWorkoutAt(entry, Now)

RestrictNothing(map, deleted) == map

Restrict(map, deleted) ==
    [k \in (DOMAIN map) \ Range(deleted) |-> map[k]]

Spread(under, over) ==
    [k \in (DOMAIN under) \cup (DOMAIN over) |->
        IF k \in DOMAIN over THEN over[k] ELSE under[k]]

mergedProfileRemoteFirst(local, remote) ==
    IF remote.profile # NULL THEN remote.profile ELSE local.profile

mergedProfile(local, remote) ==
    IF local.sync.profilePending
    THEN (IF local.profile # NULL THEN local.profile ELSE remote.profile)
    ELSE (IF remote.profile # NULL THEN remote.profile ELSE local.profile)

\* `remote.workouts ?? []`: a list or map the snapshot lacks counts as empty.
OrEmpty(snapshot, field, empty) ==
    IF field \in DOMAIN snapshot THEN snapshot[field] ELSE empty

\* mergeSnapshot called when the clock (new Date()) reads `now`.
mergeSnapshotAt(local, remote, now) ==
    LET deletedWorkoutIds == local.sync.deletedWorkoutIds
        deletedNutritionDates == local.sync.deletedNutritionDates
        deletedProgressIds == local.sync.deletedProgressIds
        normalizedRemoteWorkouts ==
            SelectSeq([i \in DOMAIN OrEmpty(remote, "workouts", <<>>) |->
                          NormalizeRemoteWorkoutAt(OrEmpty(remote, "workouts", <<>>)[i], now)],
                      LAMBDA entry : ~Includes(deletedWorkoutIds, entry.id))
        localWorkouts ==
            SelectSeq(local.workouts, LAMBDA entry : ~Includes(deletedWorkoutIds, entry.id))
        filteredRemoteNutrition ==
            Restrict(OrEmpty(remote, "nutritionByDate", EmptyMap), deletedNutritionDates)
        localNutrition == Restrict(local.nutritionByDate, deletedNutritionDates)
        filteredRemoteProgress ==
            SelectSeq(OrEmpty(remote, "progressEntries", <<>>),
                      LAMBDA entry : ~Includes(deletedProgressIds, entry.id))
        localProgress ==
            SelectSeq(local.progressEntries,
                      LAMBDA entry : ~Includes(deletedProgressIds, entry.id))
    IN  [auth |-> local.auth,
         profile |-> mergedProfile(local, remote),
         workouts |-> SortBy(mergeById(normalizedRemoteWorkouts, localWorkouts),
                             WorkoutBefore),
         nutritionByDate |-> Spread(filteredRemoteNutrition, localNutrition),
         progressEntries |-> SortBy(mergeById(filteredRemoteProgress, localProgress),
                                    ProgressBefore),
         sync |-> local.sync,
         settings |-> local.settings]

mergeSnapshot(local, remote) == mergeSnapshotAt(local, remote, Now)

ApplySnapshotClearing(prev, snapshot) ==
    [mergeSnapshot(prev, snapshot) EXCEPT
        !.sync = [EmptySync EXCEPT !.lastSuccessfulSyncAt = Stamp(prev.sync.lastSuccessfulSyncAt)]]

\* The updater every snapshot pull hands to setAppData.
ApplySnapshot(prev, snapshot) ==
    [mergeSnapshot(prev, snapshot) EXCEPT
        !.sync = [prev.sync EXCEPT !.lastSuccessfulSyncAt = Stamp(@)]]

\* An update that leaves syncedAt as it was.
buildUpdatedWorkoutKeepsSynced(existing, ver) ==
    [existing EXCEPT !.ver = ver, !.exerciseEntries = "list"]

buildUpdatedWorkout(existing, ver) ==
    [existing EXCEPT !.ver = ver, !.exerciseEntries = "list", !.syncedAt = NULL]

\* An update that adds the workout when the id is unknown.
updateWorkoutInListUpsert(workouts, workoutId, ver) ==
    IF workoutId \notin Ids(workouts)
    THEN [workouts |-> workouts \o <<MakeWorkout(workoutId, ver, NULL)>>,
          updatedWorkout |-> <<MakeWorkout(workoutId, ver, NULL)>>]
    ELSE LET updatedWorkout ==
                 buildUpdatedWorkout(workouts[FindById(workouts, workoutId)], ver)
         IN  [workouts |-> [i \in DOMAIN workouts |->
                               IF workouts[i].id = workoutId
                               THEN updatedWorkout ELSE workouts[i]],
              updatedWorkout |-> <<updatedWorkout>>]

updateWorkoutInList(workouts, workoutId, ver) ==
    IF workoutId \notin Ids(workouts)
    THEN [workouts |-> workouts, updatedWorkout |-> <<>>]
    ELSE LET updatedWorkout ==
                 buildUpdatedWorkout(workouts[FindById(workouts, workoutId)], ver)
         IN  [workouts |-> [i \in DOMAIN workouts |->
                               IF workouts[i].id = workoutId
                               THEN updatedWorkout ELSE workouts[i]],
              updatedWorkout |-> <<updatedWorkout>>]

\* ------------------------------------------------ pending-change tracker
setProfilePending(prev, pending) ==
    [prev EXCEPT !.sync = [prev.sync EXCEPT
        !.profilePending = pending,
        !.lastSuccessfulSyncAt = IF pending THEN @ ELSE Stamp(@)]]

addNutritionPendingKeepTombstone(prev, date) ==
    [prev EXCEPT !.sync = [prev.sync EXCEPT
        !.nutritionPendingDates = withUnique(@, date)]]

addNutritionPending(prev, date) ==
    [prev EXCEPT !.sync = [prev.sync EXCEPT
        !.nutritionPendingDates = withUnique(@, date),
        !.deletedNutritionDates = Without(@, date)]]

resolveHeadNutritionPending(prev, date) ==
    [prev EXCEPT !.sync = [prev.sync EXCEPT
        !.nutritionPendingDates = IF @ = <<>> THEN @ ELSE Tail(@),
        !.lastSuccessfulSyncAt = Stamp(@)]]

resolveNutritionPending(prev, date) ==
    [prev EXCEPT !.sync = [prev.sync EXCEPT
        !.nutritionPendingDates = Without(@, date),
        !.lastSuccessfulSyncAt = Stamp(@)]]

addProgressPending(prev, id) ==
    [prev EXCEPT !.sync = [prev.sync EXCEPT
        !.progressPendingIds = withUnique(@, id),
        !.deletedProgressIds = Without(@, id)]]

resolveProgressPending(prev, id) ==
    [prev EXCEPT !.sync = [prev.sync EXCEPT
        !.progressPendingIds = Without(@, id),
        !.lastSuccessfulSyncAt = Stamp(@)]]

addWorkoutDeletePending(prev, id) ==
    [prev EXCEPT !.sync = [prev.sync EXCEPT
        !.deletedWorkoutIds = withUnique(@, id)]]

resolveWorkoutDeletePending(prev, id) ==
    [prev EXCEPT !.sync = [prev.sync EXCEPT
        !.deletedWorkoutIds = Without(@, id),
        !.lastSuccessfulSyncAt = Stamp(@)]]

addNutritionDeletePending(prev, date) ==
    [prev EXCEPT !.sync = [prev.sync EXCEPT
        !.nutritionPendingDates = Without(@, date),
        !.deletedNutritionDates = withUnique(@, date)]]

resolveNutritionDeletePending(prev, date) ==
    [prev EXCEPT !.sync = [prev.sync EXCEPT
        !.deletedNutritionDates = Without(@, date),
        !.lastSuccessfulSyncAt = Stamp(@)]]

addProgressDeletePending(prev, id) ==
    [prev EXCEPT !.sync = [prev.sync EXCEPT
        !.progressPendingIds = Without(@, id),
        !.deletedProgressIds = withUnique(@, id)]]

\* A resolve written as the mirror image of addProgressDeletePending.
resolveProgressDeletePendingClearsPending(prev, id) ==
    [prev EXCEPT !.sync = [prev.sync EXCEPT
        !.progressPendingIds = Without(@, id),
        !.deletedProgressIds = Without(@, id),
        !.lastSuccessfulSyncAt = Stamp(@)]]

resolveProgressDeletePending(prev, id) ==
    [prev EXCEPT !.sync = [prev.sync EXCEPT
        !.deletedProgressIds = Without(@, id),
        !.lastSuccessfulSyncAt = Stamp(@)]]

markWorkoutSynced(prev, workoutId) ==
    [prev EXCEPT
        !.workouts = [i \in DOMAIN @ |->
                         IF @[i].id = workoutId THEN [@[i] EXCEPT !.syncedAt = Now]
                         ELSE @[i]],
        !.sync = [prev.sync EXCEPT !.lastSuccessfulSyncAt = Stamp(@)]]

UnsyncedWorkouts(data) == SelectSeq(data.workouts, LAMBDA entry : entry.syncedAt = NULL)

PendingTotal(data) ==
    Len(UnsyncedWorkouts(data)) + Len(data.sync.deletedWorkoutIds)
    + Len(data.sync.nutritionPendingDates) + Len(data.sync.deletedNutritionDates)
    + Len(data.sync.progressPendingIds) + Len(data.sync.deletedProgressIds)
    + (IF data.sync.profilePending THEN 1 ELSE 0)

\* The keys a document holds: live records, pending entries and tombstones.
Key(kind, key) == <<kind, key>>

LiveKeys(data) ==
    {Key("workout", id) : id \in Ids(data.workouts)}
    \cup {Key("nutrition", date) : date \in DOMAIN data.nutritionByDate}
    \cup {Key("progress", id) : id \in Ids(data.progressEntries)}

TombstoneKeys(data) ==
    {Key("workout", id) : id \in Range(data.sync.deletedWorkoutIds)}
    \cup {Key("nutrition", date) : date \in Range(data.sync.deletedNutritionDates)}
    \cup {Key("progress", id) : id \in Range(data.sync.deletedProgressIds)}

PendingKeys(data) ==
    {Key("nutrition", date) : date \in Range(data.sync.nutritionPendingDates)}
    \cup {Key("progress", id) : id \in Range(data.sync.progressPendingIds)}

HeldKeys(data) == LiveKeys(data) \cup PendingKeys(data) \cup TombstoneKeys(data)

\* ------------------------------------------------------- the REST server
sortData(data) ==
    [data EXCEPT !.workouts = SortBy(@, WorkoutBefore),
                 !.progressEntries = SortBy(@, ProgressBefore)]

replaceOrPushAlwaysUnshift(items, item) == <<item>> \o items

\* findIndex yields the first index that holds the id, or -1 (here 0).
replaceOrPush(items, item) ==
    LET index == IF item.id \in Ids(items)
                 THEN CHOOSE i \in DOMAIN items :
                         /\ items[i].id = item.id
                         /\ \A j \in 1..(i - 1) : items[j].id # item.id
                 ELSE 0
    IN  IF index # 0 THEN [items EXCEPT ![index] = item] ELSE <<item>> \o items

ServerPutProfile(data, profile) == [data EXCEPT !.profile = profile]

ServerPostWorkout(data, payload) ==
    LET normalizedWorkout ==
            [payload EXCEPT
                !.exerciseEntries = "absent",
                !.createdAt = IF payload.createdAt = NULL THEN Now ELSE payload.createdAt,
                !.syncedAt = Now]
    IN  sortData([data EXCEPT !.workouts = replaceOrPush(@, normalizedWorkout)])

ServerDeleteWorkout(data, id) ==
    sortData([data EXCEPT !.workouts = SelectSeq(@, LAMBDA entry : entry.id # id)])

ServerPutNutrition(data, date, log) ==
    [data EXCEPT !.nutritionByDate = Spread(@, [d \in {date} |-> log])]

ServerDeleteNutrition(data, date) ==
    [data EXCEPT !.nutritionByDate = [d \in (DOMAIN @) \ {date} |-> @[d]]]

ServerPostProgress(data, entry) ==
    sortData([data EXCEPT !.progressEntries = replaceOrPush(@, entry)])

ServerDeleteProgress(data, id) ==
    sortData([data EXCEPT !.progressEntries = SelectSeq(@, LAMBDA entry : entry.id # id)])

ServerSnapshot(data) == sortData(data)

\* A remote call: op, the key in the URL or body, the content version sent, and
\* for handleAddProgress the profile to push afterwards.
Call(op, key, body, next) == [op |-> op, key |-> key, body |-> body, next |-> next]

NoCall == Call("none", "", NULL, NULL)

ServerApply(data, c) ==
    CASE c.op = "pushProfile"   -> ServerPutProfile(data, c.body)
      [] c.op = "pushWorkout"   -> ServerPostWorkout(data, MakeWorkout(c.key, c.body, NULL))
      [] c.op = "pushNutrition" -> ServerPutNutrition(data, c.key, MakeNutritionLog(c.key, c.body))
      [] c.op = "pushProgress"  -> ServerPostProgress(data, MakeProgressEntry(c.key, c.body))
      [] c.op = "delWorkout"    -> ServerDeleteWorkout(data, c.key)
      [] c.op = "delNutrition"  -> ServerDeleteNutrition(data, c.key)
      [] c.op = "delProgress"   -> ServerDeleteProgress(data, c.key)
      [] c.op = "reset"         -> createDefaultAppData
      [] OTHER                  -> data

Outcomes == {"ok", "fail", "lost"}
Seen(outcome) == outcome = "ok"
Applied(outcome) == outcome \in {"ok", "lost"}

\* ----------------------------------------------------------------- state
VARIABLES
    appData,      \* useState<AppData>: the local document
    store,        \* the Local Store: the persisted AppData document
    isReady,      \* useState(false): the startup load has finished
    boot,         \* position of the startup load effect
    authToken,    \* fitnessApi.ts: the module-level bearer token
    syncing,      \* useState(false): the orchestrator's re-entrant guard
    remote,       \* the server's AppData of this user
    inflight,     \* remote calls issued by handlers, reply not yet delivered
    passes,       \* the running invocations of syncPendingChanges
    ops,          \* number of user actions so far
    used,         \* ids handed out by createId
    gone,         \* history: keys the user deleted and has not saved again
    delOk,        \* history: keys of `gone` for which a remote delete succeeded
    profileEdit,  \* history: the latest explicit profile edit, until its push succeeds
    passLog,      \* history: what the pass captured and the calls it made
    bootDoc,      \* history: the document persisted before startup / given to the merge
    wiped,        \* history: keys Reset All Data removed and the user has not saved again
    calm,         \* from now on every call succeeds and the user is idle
    activeBackend,   \* store.ts: the storage backend in use
    fallbackReason,  \* store.ts: why the store fell back to file storage
    fileCache,       \* store.ts: the file store held in memory
    dataFile,        \* the file store on disk
    postgres,        \* the Postgres tables
    requests,        \* the API requests being handled
    responses,       \* history: the responses the API has sent
    knowledge,       \* knowledgeState.ts: the KnowledgeProgress
    quizCalls,       \* history: recordQuizAttempt calls made for each lesson
    timers           \* the debounce effect's timeouts that are set and have not fired

serverVars == <<activeBackend, fallbackReason, fileCache, dataFile, postgres,
                requests, responses>>

knowledgeVars == <<knowledge, quizCalls>>

vars == <<appData, store, isReady, boot, authToken, syncing, remote, inflight,
          passes, ops, used, gone, delOk, profileEdit, passLog, bootDoc, wiped, calm,
          serverVars, knowledgeVars, timers>>

\* The debounce effect (useEffect with the dependencies isReady, syncing,
\* pendingSummary.total and auth.userId): when a render changes a dependency
\* the cleanup clears the effect's timeout, and the effect sets a new one
\* unless it returns early.
EffectDeps == <<isReady, syncing, PendingTotal(appData), appData.auth.userId>>

EffectDue ==
    isReady /\ appData.auth.userId # "null" /\ PendingTotal(appData) # 0 /\ ~syncing

TimersAtMount == IF EffectDue THEN 1 ELSE 0

\* `left` is the number of timeouts still set when the render happens.
RunEffect(left) ==
    timers' = IF EffectDeps' = EffectDeps THEN left
              ELSE IF EffectDue' THEN 1 ELSE 0

DebounceEffect == RunEffect(timers)

\* knowledgeState.ts
Lessons == {"lesson-1", "lesson-2"}

createEmptyKnowledgeProgress ==
    [completedLessonIds |-> <<>>, lessonQuizProgress |-> <<>>,
     learningActivityDates |-> <<>>]

KnowledgeAtRest ==
    /\ knowledge = createEmptyKnowledgeProgress
    /\ quizCalls = [lesson \in Lessons |-> 0]

\* The API's store before any request: file storage, nothing cached, no data.
\* The client specifications leave it so; `remote` is their view of the server.
ServerUsers == {"uA", "uB"}

Tokens == {"tA", "tB"}

DEFAULT_USER_ID == "local-user"

createDefaultFileStoreData ==
    [sessions |-> {}, userData |-> [u \in ServerUsers |-> createDefaultAppData]]

AllSessions == {<<"tA", "uA">>, <<"tB", "uB">>}

\* A request being handled: the route handler's position (phase), the position
\* inside the store call it awaits (sub), the user its token resolved to, the
\* file content its readFile returns, and the AppData it read and changed.
IdleRequest ==
    [phase |-> "idle", sub |-> "call", route |-> NoCall, userId |-> "",
     raw |-> createDefaultFileStoreData, data |-> createDefaultAppData,
     startedOn |-> "", pgFailed |-> FALSE, served |-> ""]

\* The last response sent for a token, and `own`: the AppData that the
\* acknowledged writes of this token's user amount to.
NoResponse ==
    [route |-> NoCall, userId |-> "", status |-> 0, profile |-> NULL,
     data |-> createDefaultAppData, startedOn |-> "", pgFailed |-> FALSE,
     served |-> "", own |-> createDefaultAppData]

ServerAtRest ==
    /\ activeBackend = "file"
    /\ fallbackReason = "null"
    /\ fileCache = <<>>
    /\ dataFile = createDefaultFileStoreData
    /\ postgres = createDefaultFileStoreData
    /\ requests = [t \in Tokens |-> IdleRequest]
    /\ responses = [t \in Tokens |-> NoResponse]

PassIds == 1..MaxPasses

IdlePass == [todo |-> <<>>, awaiting |-> NoCall, pull |-> FALSE]

Running(p) == passes[p].awaiting # NoCall

RunningPasses == {p \in PassIds : Running(p)}

EmptyLog == [start |-> createEmptyAppData, calls |-> <<>>, done |-> FALSE, clean |-> TRUE]

SignedIn == [userId |-> UserId, token |-> Token]

\* setAppData followed by the save effect (saveAppData runs after every change
\* of appData once isReady).
Commit(next) ==
    /\ appData' = next
    /\ store' = IF isReady THEN next ELSE store

Init ==
    /\ appData = [createEmptyAppData EXCEPT !.auth = SignedIn]
    /\ store = [createEmptyAppData EXCEPT !.auth = SignedIn]
    /\ isReady = TRUE
    /\ boot = "done"
    /\ authToken = Token
    /\ syncing = FALSE
    /\ remote = createDefaultAppData
    /\ inflight = {}
    /\ passes = [p \in PassIds |-> IdlePass]
    /\ ops = 0
    /\ used = {}
    /\ gone = {}
    /\ delOk = {}
    /\ profileEdit = NULL
    /\ passLog = EmptyLog
    /\ bootDoc = createEmptyAppData
    /\ calm = FALSE
    /\ wiped = {}
    /\ ServerAtRest
    /\ KnowledgeAtRest
    /\ timers = TimersAtMount

\* ---------------------------------------------------- the user's handlers
\* What the rendered screens allow: a signed-in session; the tab screens only
\* once a profile exists, the onboarding screen only while none does.
CanAct == isReady /\ ~calm /\ ops < MaxOps /\ appData.auth.userId # "null"
OnTabs == CanAct /\ appData.profile # NULL
CanCall == Cardinality(inflight) < MaxInFlight

NewVer == ops + 1

Issue(c) == inflight' = inflight \cup {c}

completeOnboarding ==
    /\ CanAct /\ appData.profile = NULL /\ CanCall
    /\ Commit([appData EXCEPT !.profile = NewVer,
                              !.sync = [appData.sync EXCEPT !.profilePending = TRUE]])
    /\ Issue(Call("pushProfile", "", NewVer, NULL))
    /\ profileEdit' = NewVer
    /\ ops' = ops + 1
    /\ UNCHANGED <<isReady, boot, authToken, syncing, remote, passes, used, gone,
                   delOk, passLog, bootDoc, wiped, calm,
                   serverVars, knowledgeVars>>
    /\ DebounceEffect

handleSaveProfile ==
    /\ OnTabs /\ CanCall
    /\ Commit(setProfilePending([appData EXCEPT !.profile = NewVer], TRUE))
    /\ Issue(Call("pushProfile", "", NewVer, NULL))
    /\ profileEdit' = NewVer
    /\ ops' = ops + 1
    /\ UNCHANGED <<isReady, boot, authToken, syncing, remote, passes, used, gone,
                   delOk, passLog, bootDoc, wiped, calm,
                   serverVars, knowledgeVars>>
    /\ DebounceEffect

handleCreateWorkout(id) ==
    /\ OnTabs /\ CanCall /\ Key("workout", id) \notin used
    /\ Commit([appData EXCEPT !.workouts = <<MakeWorkout(id, NewVer, NULL)>> \o @])
    /\ Issue(Call("pushWorkout", id, NewVer, NULL))
    /\ used' = used \cup {Key("workout", id)}
    /\ ops' = ops + 1
    /\ UNCHANGED <<isReady, boot, authToken, syncing, remote, passes, gone, delOk,
                   profileEdit, passLog, bootDoc, wiped, calm,
                   serverVars, knowledgeVars>>
    /\ DebounceEffect

handleUpdateWorkout(id) ==
    LET next == updateWorkoutInList(appData.workouts, id, NewVer)
    IN  /\ OnTabs /\ CanCall
        /\ next.updatedWorkout # <<>>
        /\ Commit([appData EXCEPT !.workouts = next.workouts])
        /\ Issue(Call("pushWorkout", id, next.updatedWorkout[1].ver, NULL))
        /\ ops' = ops + 1
        /\ UNCHANGED <<isReady, boot, authToken, syncing, remote, passes, used, gone,
                       delOk, profileEdit, passLog, bootDoc, wiped, calm,
                   serverVars, knowledgeVars>>
        /\ DebounceEffect

handleDeleteWorkout(id) ==
    /\ OnTabs /\ CanCall /\ id \in Ids(appData.workouts)
    /\ Commit([appData EXCEPT
                  !.workouts = SelectSeq(@, LAMBDA entry : entry.id # id),
                  !.sync = [appData.sync EXCEPT !.deletedWorkoutIds = withUnique(@, id)]])
    /\ Issue(Call("delWorkout", id, NULL, NULL))
    /\ gone' = gone \cup {Key("workout", id)}
    /\ delOk' = delOk \ {Key("workout", id)}
    /\ ops' = ops + 1
    /\ UNCHANGED <<isReady, boot, authToken, syncing, remote, passes, used,
                   profileEdit, passLog, bootDoc, wiped, calm,
                   serverVars, knowledgeVars>>
    /\ DebounceEffect

handleSaveNutrition(date) ==
    /\ OnTabs /\ CanCall
    /\ Commit([appData EXCEPT
                  !.nutritionByDate = Spread(@, [d \in {date} |-> MakeNutritionLog(date, NewVer)])])
    /\ Issue(Call("pushNutrition", date, NewVer, NULL))
    /\ gone' = gone \ {Key("nutrition", date)}
    /\ delOk' = delOk \ {Key("nutrition", date)}
    /\ ops' = ops + 1
    /\ wiped' = wiped \ {Key("nutrition", date)}
    /\ UNCHANGED <<isReady, boot, authToken, syncing, remote, passes, used,
                   profileEdit, passLog, bootDoc, calm,
                   serverVars, knowledgeVars>>
    /\ DebounceEffect

handleClearNutrition(date) ==
    /\ OnTabs /\ CanCall /\ date \in DOMAIN appData.nutritionByDate
    /\ Commit([appData EXCEPT
                  !.nutritionByDate = [d \in (DOMAIN @) \ {date} |-> @[d]],
                  !.sync = [appData.sync EXCEPT
                               !.nutritionPendingDates = Without(@, date),
                               !.deletedNutritionDates = withUnique(@, date)]])
    /\ Issue(Call("delNutrition", date, NULL, NULL))
    /\ gone' = gone \cup {Key("nutrition", date)}
    /\ delOk' = delOk \ {Key("nutrition", date)}
    /\ ops' = ops + 1
    /\ UNCHANGED <<isReady, boot, authToken, syncing, remote, passes, used,
                   profileEdit, passLog, bootDoc, wiped, calm,
                   serverVars, knowledgeVars>>
    /\ DebounceEffect

handleAddProgress(id) ==
    LET nextProfile == IF appData.profile # NULL THEN NewVer ELSE NULL
    IN  /\ OnTabs /\ CanCall /\ Key("progress", id) \notin used
        /\ Commit([appData EXCEPT
                      !.profile = IF @ # NULL THEN NewVer ELSE @,
                      !.progressEntries = <<MakeProgressEntry(id, NewVer)>> \o @])
        /\ Issue(Call("pushProgress", id, NewVer, nextProfile))
        /\ used' = used \cup {Key("progress", id)}
        /\ profileEdit' = NULL
        /\ ops' = ops + 1
        /\ UNCHANGED <<isReady, boot, authToken, syncing, remote, passes, gone, delOk,
                       passLog, bootDoc, wiped, calm,
                   serverVars, knowledgeVars>>
        /\ DebounceEffect

handleDeleteProgressEntry(id) ==
    /\ OnTabs /\ CanCall /\ id \in Ids(appData.progressEntries)
    /\ Commit([appData EXCEPT
                  !.progressEntries = SelectSeq(@, LAMBDA entry : entry.id # id),
                  !.sync = [appData.sync EXCEPT
                               !.progressPendingIds = Without(@, id),
                               !.deletedProgressIds = withUnique(@, id)]])
    /\ Issue(Call("delProgress", id, NULL, NULL))
    /\ gone' = gone \cup {Key("progress", id)}
    /\ delOk' = delOk \ {Key("progress", id)}
    /\ ops' = ops + 1
    /\ UNCHANGED <<isReady, boot, authToken, syncing, remote, passes, used,
                   profileEdit, passLog, bootDoc, wiped, calm,
                   serverVars, knowledgeVars>>
    /\ DebounceEffect

handleResetAllData ==
    /\ OnTabs /\ CanCall
    /\ syncing' = TRUE
    /\ Issue(Call("reset", "", NULL, NULL))
    /\ ops' = ops + 1
    /\ UNCHANGED <<appData, store, isReady, boot, authToken, remote, passes, used, gone,
                   delOk, profileEdit, passLog, bootDoc, wiped, calm,
                   serverVars, knowledgeVars>>
    /\ DebounceEffect

\* ------------------------------------------- replies to the handlers' calls
\* The continuation of a handler after its awaited call: handleSaveProfile,
\* completeOnboarding and handleAddProgress end in setProfilePending(!synced);
\* the save and delete handlers resolve on success and (re-)mark on failure.
HandlerEffect(prev, c, seen) ==
    CASE c.op = "pushProfile"   -> setProfilePending(prev, ~seen)
      [] c.op = "pushWorkout"   -> IF seen THEN markWorkoutSynced(prev, c.key) ELSE prev
      [] c.op = "pushNutrition" -> IF seen THEN resolveNutritionPending(prev, c.key)
                                   ELSE addNutritionPending(prev, c.key)
      [] c.op = "pushProgress"  -> IF seen THEN resolveProgressPending(prev, c.key)
                                   ELSE addProgressPending(prev, c.key)
      [] c.op = "delWorkout"    -> IF seen THEN resolveWorkoutDeletePending(prev, c.key)
                                   ELSE addWorkoutDeletePending(prev, c.key)
      [] c.op = "delNutrition"  -> IF seen THEN resolveNutritionDeletePending(prev, c.key)
                                   ELSE addNutritionDeletePending(prev, c.key)
      [] c.op = "delProgress"   -> IF seen THEN resolveProgressDeletePending(prev, c.key)
                                   ELSE addProgressDeletePending(prev, c.key)
      [] OTHER                  -> prev

KindOf(c) ==
    CASE c.op = "delWorkout" -> "workout"
      [] c.op = "delNutrition" -> "nutrition"
      [] c.op = "delProgress" -> "progress"
      [] OTHER -> "none"

\* History: a remote delete of a key the user deleted has been seen to succeed.
DeleteSeen(c, seen) ==
    IF seen THEN delOk \cup ({Key(KindOf(c), c.key)} \cap gone) ELSE delOk

\* History: the push of the latest explicit profile edit has been seen to succeed.
EditSeen(c, seen) ==
    IF seen /\ c.op = "pushProfile" /\ c.body = profileEdit THEN NULL ELSE profileEdit

AllowedOutcome(outcome) == calm => outcome = "ok"

HandlerReply(c, outcome) ==
    /\ c \in inflight /\ c.op # "reset"
    /\ AllowedOutcome(outcome)
    /\ remote' = IF Applied(outcome) THEN ServerApply(remote, c) ELSE remote
    /\ Commit(HandlerEffect(appData, c, Seen(outcome)))
    /\ inflight' = (inflight \ {c}) \cup
                   (IF c.op = "pushProgress" /\ c.next # NULL
                    THEN {Call("pushProfile", "", c.next, NULL)} ELSE {})
    /\ delOk' = DeleteSeen(c, Seen(outcome))
    /\ profileEdit' = EditSeen(c, Seen(outcome))
    /\ UNCHANGED <<isReady, boot, authToken, syncing, passes, ops, used, gone,
                   passLog, bootDoc, wiped, calm,
                   serverVars, knowledgeVars>>
    /\ DebounceEffect

\* handleResetAllData after `await clearRemoteData()`: whatever the result, the
\* finally block clears the guard and the local document is replaced.
ResetReply(outcome) ==
    LET c == Call("reset", "", NULL, NULL)
    IN  /\ c \in inflight
        /\ AllowedOutcome(outcome)
        /\ remote' = IF Applied(outcome) THEN ServerApply(remote, c) ELSE remote
        /\ syncing' = FALSE
        /\ Commit([createEmptyAppData EXCEPT !.auth = appData.auth])
        /\ inflight' = inflight \ {c}
        /\ gone' = {}
        /\ delOk' = {}
        /\ profileEdit' = NULL
        /\ wiped' = wiped \cup HeldKeys(appData)
        /\ UNCHANGED <<isReady, boot, authToken, passes, ops, used, passLog, bootDoc, calm,
                   serverVars, knowledgeVars>>
        /\ DebounceEffect

\* ------------------------------------------------------ sync orchestrator
\* A pass that pulls the snapshot before it pushes.
PassPlanPullFirst(current, pull) ==
    LET sync == current.sync
        delW == [i \in DOMAIN sync.deletedWorkoutIds |->
                    Call("delWorkout", sync.deletedWorkoutIds[i], NULL, NULL)]
        delN == [i \in DOMAIN sync.deletedNutritionDates |->
                    Call("delNutrition", sync.deletedNutritionDates[i], NULL, NULL)]
        delP == [i \in DOMAIN sync.deletedProgressIds |->
                    Call("delProgress", sync.deletedProgressIds[i], NULL, NULL)]
        prof == IF current.profile # NULL /\ sync.profilePending
                THEN <<Call("pushProfile", "", current.profile, NULL)>> ELSE <<>>
        dates == SelectSeq(sync.nutritionPendingDates,
                           LAMBDA date : ~Includes(sync.deletedNutritionDates, date))
        nutr == [i \in DOMAIN dates |->
                    IF dates[i] \in DOMAIN current.nutritionByDate
                    THEN Call("pushNutrition", dates[i],
                              current.nutritionByDate[dates[i]].ver, NULL)
                    ELSE Call("resolveNutrition", dates[i], NULL, NULL)]
        entryIds == SelectSeq(sync.progressPendingIds,
                              LAMBDA id : ~Includes(sync.deletedProgressIds, id))
        prog == [i \in DOMAIN entryIds |->
                    IF entryIds[i] \in Ids(current.progressEntries)
                    THEN Call("pushProgress", entryIds[i],
                              current.progressEntries[
                                  FindById(current.progressEntries, entryIds[i])].ver, NULL)
                    ELSE Call("resolveProgress", entryIds[i], NULL, NULL)]
        pendingWorkouts ==
            SelectSeq(current.workouts,
                      LAMBDA entry : entry.syncedAt = NULL
                                     /\ ~Includes(sync.deletedWorkoutIds, entry.id))
        work == [i \in DOMAIN pendingWorkouts |->
                    Call("pushWorkout", pendingWorkouts[i].id, pendingWorkouts[i].ver, NULL)]
        snap == IF pull THEN <<Call("fetchSnapshot", "", NULL, NULL)>> ELSE <<>>
    IN  snap \o delW \o delN \o delP \o prof \o nutr \o prog \o work

\* syncPendingChanges reads everything it iterates over from `current`, the
\* document captured when the pass starts, so the sequence of its loop bodies
\* is fixed at the start: PassPlan lists them in the order of the code.
PassPlan(current, pull) ==
    LET sync == current.sync
        delW == [i \in DOMAIN sync.deletedWorkoutIds |->
                    Call("delWorkout", sync.deletedWorkoutIds[i], NULL, NULL)]
        delN == [i \in DOMAIN sync.deletedNutritionDates |->
                    Call("delNutrition", sync.deletedNutritionDates[i], NULL, NULL)]
        delP == [i \in DOMAIN sync.deletedProgressIds |->
                    Call("delProgress", sync.deletedProgressIds[i], NULL, NULL)]
        prof == IF current.profile # NULL /\ sync.profilePending
                THEN <<Call("pushProfile", "", current.profile, NULL)>> ELSE <<>>
        dates == SelectSeq(sync.nutritionPendingDates,
                           LAMBDA date : ~Includes(sync.deletedNutritionDates, date))
        nutr == [i \in DOMAIN dates |->
                    IF dates[i] \in DOMAIN current.nutritionByDate
                    THEN Call("pushNutrition", dates[i],
                              current.nutritionByDate[dates[i]].ver, NULL)
                    ELSE Call("resolveNutrition", dates[i], NULL, NULL)]
        entryIds == SelectSeq(sync.progressPendingIds,
                              LAMBDA id : ~Includes(sync.deletedProgressIds, id))
        prog == [i \in DOMAIN entryIds |->
                    IF entryIds[i] \in Ids(current.progressEntries)
                    THEN Call("pushProgress", entryIds[i],
                              current.progressEntries[
                                  FindById(current.progressEntries, entryIds[i])].ver, NULL)
                    ELSE Call("resolveProgress", entryIds[i], NULL, NULL)]
        pendingWorkouts ==
            SelectSeq(current.workouts,
                      LAMBDA entry : entry.syncedAt = NULL
                                     /\ ~Includes(sync.deletedWorkoutIds, entry.id))
        work == [i \in DOMAIN pendingWorkouts |->
                    Call("pushWorkout", pendingWorkouts[i].id, pendingWorkouts[i].ver, NULL)]
        snap == IF pull THEN <<Call("fetchSnapshot", "", NULL, NULL)>> ELSE <<>>
    IN  delW \o delN \o delP \o prof \o nutr \o prog \o work \o snap

IsRemoteCall(c) == c.op \notin {"none", "resolveNutrition", "resolveProgress"}

\* A pass that skips stale pending entries without resolving them.
RECURSIVE AdvanceKeepsStale(_, _)
AdvanceKeepsStale(data, todo) ==
    IF todo = <<>> THEN [data |-> data, todo |-> <<>>, awaiting |-> NoCall]
    ELSE IF Head(todo).op \in {"resolveNutrition", "resolveProgress"}
         THEN AdvanceKeepsStale(data, Tail(todo))
    ELSE [data |-> data, todo |-> Tail(todo), awaiting |-> Head(todo)]

\* Run the pass up to its next await: stale pending entries are resolved
\* without a call; the first remaining remote call is the one awaited.
RECURSIVE Advance(_, _)
Advance(data, todo) ==
    IF todo = <<>> THEN [data |-> data, todo |-> <<>>, awaiting |-> NoCall]
    ELSE IF Head(todo).op = "resolveNutrition"
         THEN Advance(resolveNutritionPending(data, Head(todo).key), Tail(todo))
    ELSE IF Head(todo).op = "resolveProgress"
         THEN Advance(resolveProgressPending(data, Head(todo).key), Tail(todo))
    ELSE [data |-> data, todo |-> Tail(todo), awaiting |-> Head(todo)]

\* What a pass does with the reply of a call: only a success has an effect.
PassEffect(prev, c, seen, snapshot) ==
    IF ~seen THEN prev
    ELSE CASE c.op = "delWorkout"    -> resolveWorkoutDeletePending(prev, c.key)
           [] c.op = "delNutrition"  -> resolveNutritionDeletePending(prev, c.key)
           [] c.op = "delProgress"   -> resolveProgressDeletePending(prev, c.key)
           [] c.op = "pushProfile"   -> setProfilePending(prev, FALSE)
           [] c.op = "pushNutrition" -> resolveNutritionPending(prev, c.key)
           [] c.op = "pushProgress"  -> resolveProgressPending(prev, c.key)
           [] c.op = "pushWorkout"   -> markWorkoutSynced(prev, c.key)
           [] c.op = "fetchSnapshot" -> ApplySnapshot(prev, snapshot)
           [] OTHER                  -> prev

LoopAbortsOnFailure(todo, seen) == IF seen THEN todo ELSE <<>>

\* No loop body of the pass breaks, returns or throws on a failed call (the api
\* functions catch every error and return false): the rest of the plan stands.
LoopContinues(todo, seen) == todo

FreeSlot == CHOOSE p \in PassIds : ~Running(p) /\ \A q \in PassIds : q < p => Running(q)

syncPendingChanges(pull, logged) ==
    LET current == appData
        adv == Advance(appData, PassPlan(current, pull))
        done == adv.awaiting = NoCall
    IN  /\ ~syncing
        /\ \E p \in PassIds : ~Running(p)
        /\ syncing' = ~done
        /\ passes' = IF done THEN passes
                     ELSE [passes EXCEPT ![FreeSlot] =
                              [todo |-> adv.todo, awaiting |-> adv.awaiting, pull |-> pull]]
        /\ Commit(adv.data)
        /\ passLog' = IF logged
                      THEN [start |-> current, calls |-> <<>>, done |-> done, clean |-> TRUE]
                      ELSE passLog

\* A pass without the finally block: the running flag is never reset.
PassReplyStepNoFinally(p, outcome, logged) ==
    LET c == passes[p].awaiting
        after == PassEffect(appData, c, Seen(outcome), ServerSnapshot(remote))
        adv == Advance(after, LoopContinues(passes[p].todo, Seen(outcome)))
        done == adv.awaiting = NoCall
    IN  /\ Running(p)
        /\ AllowedOutcome(outcome)
        /\ remote' = IF Applied(outcome) THEN ServerApply(remote, c) ELSE remote
        /\ Commit(adv.data)
        /\ passes' = [passes EXCEPT ![p] =
                         IF done THEN IdlePass
                         ELSE [@ EXCEPT !.todo = adv.todo, !.awaiting = adv.awaiting]]
        /\ syncing' = syncing
        /\ delOk' = DeleteSeen(c, Seen(outcome))
        /\ passLog' = IF logged
                      THEN [passLog EXCEPT
                               !.calls = Append(@, [call |-> c, outcome |-> outcome]),
                               !.done = done]
                      ELSE passLog
        /\ profileEdit' = EditSeen(c, Seen(outcome))
        /\ UNCHANGED <<isReady, boot, authToken, inflight, ops, used, gone, bootDoc, wiped, calm,
                   serverVars, knowledgeVars>>
        /\ DebounceEffect

PassReplyStep(p, outcome, logged) ==
    LET c == passes[p].awaiting
        after == PassEffect(appData, c, Seen(outcome), ServerSnapshot(remote))
        adv == Advance(after, LoopContinues(passes[p].todo, Seen(outcome)))
        done == adv.awaiting = NoCall
    IN  /\ Running(p)
        /\ AllowedOutcome(outcome)
        /\ remote' = IF Applied(outcome) THEN ServerApply(remote, c) ELSE remote
        /\ Commit(adv.data)
        /\ passes' = [passes EXCEPT ![p] =
                         IF done THEN IdlePass
                         ELSE [@ EXCEPT !.todo = adv.todo, !.awaiting = adv.awaiting]]
        /\ syncing' = IF done THEN FALSE ELSE syncing
        /\ delOk' = DeleteSeen(c, Seen(outcome))
        /\ passLog' = IF logged
                      THEN [passLog EXCEPT
                               !.calls = Append(@, [call |-> c, outcome |-> outcome]),
                               !.done = done]
                      ELSE passLog
        /\ profileEdit' = EditSeen(c, Seen(outcome))
        /\ UNCHANGED <<isReady, boot, authToken, inflight, ops, used, gone, bootDoc, wiped, calm,
                   serverVars, knowledgeVars>>
        /\ DebounceEffect

\* A debounce timer that starts the pass Sync Now starts.
DebounceTimerStepPulling(logged) ==
    /\ timers > 0
    /\ syncPendingChanges(TRUE, logged)
    /\ UNCHANGED <<isReady, boot, authToken, remote, inflight, ops, used, gone, delOk,
                   profileEdit, bootDoc, wiped, calm,
                   serverVars, knowledgeVars>>
    /\ RunEffect(timers - 1)

\* A timeout of the debounce effect fires, 1.2 s after it was set: an automatic
\* pass (no pull) starts.  The renders of the pass's state updates then run
\* the effect again; when the pass ends without awaiting anything, React
\* renders setSyncing(true) and setSyncing(false) as one update (nothing
\* changed) or as two (the effect runs again), depending on its version.
DebounceTimerStep(logged) ==
    /\ timers > 0
    /\ syncPendingChanges(FALSE, logged)
    /\ UNCHANGED <<isReady, boot, authToken, remote, inflight, ops, used, gone, delOk,
                   profileEdit, bootDoc, wiped, calm,
                   serverVars, knowledgeVars>>
    /\ \/ RunEffect(timers - 1)
       \/ /\ syncing' = syncing
          /\ timers' = IF EffectDue' THEN 1 ELSE 0

\* The Sync Now buttons are disabled while `syncing`.
handleSyncNowStep(logged) ==
    /\ OnTabs
    /\ syncPendingChanges(TRUE, logged)
    /\ ops' = ops + 1
    /\ UNCHANGED <<isReady, boot, authToken, remote, inflight, used, gone, delOk,
                   profileEdit, bootDoc, wiped, calm,
                   serverVars, knowledgeVars>>
    /\ DebounceEffect

DebounceTimer == DebounceTimerStep(FALSE)

handleSyncNow == handleSyncNowStep(FALSE)

PassReply(p, outcome) == PassReplyStep(p, outcome, FALSE)

Next ==
    \/ completeOnboarding
    \/ handleSaveProfile
    \/ \E id \in WorkoutIds : handleCreateWorkout(id)
    \/ \E id \in WorkoutIds : handleUpdateWorkout(id)
    \/ \E id \in WorkoutIds : handleDeleteWorkout(id)
    \/ \E date \in Dates : handleSaveNutrition(date)
    \/ \E date \in Dates : handleClearNutrition(date)
    \/ \E id \in ProgressIds : handleAddProgress(id)
    \/ \E id \in ProgressIds : handleDeleteProgressEntry(id)
    \/ handleResetAllData
    \/ handleSyncNow
    \/ DebounceTimer
    \/ \E c \in inflight, outcome \in Outcomes : HandlerReply(c, outcome)
    \/ \E outcome \in Outcomes : ResetReply(outcome)
    \/ \E p \in PassIds, outcome \in Outcomes : PassReply(p, outcome)

Spec == Init /\ [][Next]_vars

\* ------------------------------------------------------------ properties
\* C1: a record the user deleted and did not save again is never live again,
\* whatever pushes, deletes, passes and pulls interleave.
C1_DeletedNeverReappears == gone \cap LiveKeys(appData) = {}

\* C3: while the latest explicit profile edit has not been pushed successfully,
\* the local profile is still that edit: no pull has replaced it.
C3_UnpushedProfileKept == profileEdit # NULL => appData.profile = profileEdit

\* C4: no nutrition date and no progress id is both pending and tombstoned.
C4_PendingTombstoneDisjoint == PendingKeys(appData) \cap TombstoneKeys(appData) = {}

C4_Witness == \E k \in gone : k \in PendingKeys(appData)

\* C5: a tombstone set holds only keys that are absent from the live collection.
C5_TombstonesNotLive == TombstoneKeys(appData) \cap LiveKeys(appData) = {}

\* C6: a key the user deleted (and did not save again) stays tombstoned until
\* a remote delete of it has succeeded.
C6_TombstoneKeptUntilDeleted == (gone \ delOk) \subseteq TombstoneKeys(appData)

\* C7: at most one pass of syncPendingChanges is in progress.
C7_AtMostOnePass == Cardinality(RunningPasses) <= 1

\* C17: after Reset All Data has completed, the local document holds no record,
\* pending entry or tombstone that it held before the reset, unless the user
\* saved that key again: no late reply, pass step or pull brings one back.
C17_ResetStaysClean == wiped \cap HeldKeys(appData) = {}

\* ------------------------------------------------------- startup (C2)
\* The startup effect: loadAppData, then fetchMe when a token was persisted.
StoredSyncs ==
    {[EmptySync EXCEPT !.profilePending = pp,
                       !.nutritionPendingDates = np,
                       !.progressPendingIds = gp,
                       !.deletedWorkoutIds = dw,
                       !.deletedNutritionDates = dn,
                       !.deletedProgressIds = dp] :
        pp \in BOOLEAN, np \in {<<>>, <<"d1">>}, gp \in {<<>>, <<"p1">>},
        dw \in {<<>>, <<"w1">>}, dn \in {<<>>, <<"d1">>}, dp \in {<<>>, <<"p1">>}}

StoredDocs ==
    {doc \in
        {[auth |-> a, profile |-> pr, workouts |-> w, nutritionByDate |-> n,
          progressEntries |-> g, sync |-> sy, settings |-> DefaultSettings] :
            a \in {SignedIn, [userId |-> "local-user", token |-> "null"]},
            pr \in {NULL, 1},
            w \in {<<>>, <<MakeWorkout("w1", 1, NULL)>>, <<MakeWorkout("w1", 1, Now)>>},
            n \in {EmptyMap, [d \in {"d1"} |-> MakeNutritionLog("d1", 1)]},
            g \in {<<>>, <<MakeProgressEntry("p1", 1)>>},
            sy \in StoredSyncs} :
        /\ TombstoneKeys(doc) \cap LiveKeys(doc) = {}
        /\ TombstoneKeys(doc) \cap PendingKeys(doc) = {}
        /\ PendingKeys(doc) \subseteq LiveKeys(doc)
        /\ doc.sync.profilePending => doc.profile # NULL}

\* sanitizeWorkoutLog: a row keeps its id and date, exerciseEntries that is not
\* an array becomes [], a missing createdAt becomes now, syncedAt stays or is null.
sanitizeWorkoutLog(row) ==
    [id |-> row.id, date |-> row.date,
     createdAt |-> IF row.createdAt = NULL THEN Now ELSE row.createdAt,
     ver |-> row.ver,
     exerciseEntries |-> IF row.exerciseEntries = "list" THEN "list" ELSE "empty",
     syncedAt |-> row.syncedAt]

\* sanitize rebuilds the parsed document field by field.
sanitize(input) ==
    [auth |-> [userId |-> input.auth.userId, token |-> input.auth.token],
     profile |-> input.profile,
     workouts |-> [i \in DOMAIN input.workouts |-> sanitizeWorkoutLog(input.workouts[i])],
     nutritionByDate |-> input.nutritionByDate,
     progressEntries |-> input.progressEntries,
     sync |-> [profilePending |-> input.sync.profilePending,
               nutritionPendingDates |-> input.sync.nutritionPendingDates,
               progressPendingIds |-> input.sync.progressPendingIds,
               deletedWorkoutIds |-> input.sync.deletedWorkoutIds,
               deletedNutritionDates |-> input.sync.deletedNutritionDates,
               deletedProgressIds |-> input.sync.deletedProgressIds,
               lastSuccessfulSyncAt |-> input.sync.lastSuccessfulSyncAt],
     settings |-> [dailyReminderEnabled |-> input.settings.dailyReminderEnabled,
                   dailyReminderTime |-> input.settings.dailyReminderTime]]

InitStartup ==
    /\ store \in StoredDocs
    /\ bootDoc = store
    /\ appData = createEmptyAppData
    /\ isReady = FALSE
    /\ boot = "load"
    /\ authToken = "null"
    /\ syncing = FALSE
    /\ remote = createDefaultAppData
    /\ inflight = {}
    /\ passes = [p \in PassIds |-> IdlePass]
    /\ ops = 0
    /\ used = {}
    /\ gone = {}
    /\ delOk = {}
    /\ profileEdit = NULL
    /\ passLog = EmptyLog
    /\ calm = FALSE
    /\ wiped = {}
    /\ ServerAtRest
    /\ KnowledgeAtRest
    /\ timers = TimersAtMount

StartupFrame ==
    /\ UNCHANGED <<syncing, remote, inflight, passes, ops, used, gone, delOk, profileEdit,
                   passLog, bootDoc, wiped, calm,
                      serverVars, knowledgeVars>>
    /\ DebounceEffect

\* loadAppData resolved: setAuthToken(loaded.auth.token); with no token the
\* loaded document becomes the state at once, otherwise fetchMe is awaited.
LoadAppData ==
    LET loaded == sanitize(store)
    IN  /\ boot = "load"
        /\ authToken' = loaded.auth.token
        /\ IF loaded.auth.token # "null"
           THEN /\ boot' = "fetchMe"
                /\ UNCHANGED <<appData, store, isReady>>
           ELSE /\ boot' = "done"
                /\ appData' = loaded
                /\ isReady' = TRUE
                /\ store' = loaded
        /\ StartupFrame

\* fetchMe resolved: a user keeps the loaded document; null (any failure of
\* fetchJson: no network, timeout, non-2xx) replaces it by an empty document.
\* setIsReady(true) then lets the save effect persist the new state.
FetchMeReply(outcome) ==
    LET loaded == sanitize(store)
        nextData == IF Seen(outcome)
                    THEN [loaded EXCEPT !.auth = [userId |-> UserId, token |-> loaded.auth.token]]
                    ELSE createEmptyAppData
    IN  /\ boot = "fetchMe"
        /\ outcome \in {"ok", "fail"}
        /\ authToken' = IF Seen(outcome) THEN authToken ELSE "null"
        /\ appData' = nextData
        /\ isReady' = TRUE
        /\ store' = nextData
        /\ boot' = "done"
        /\ StartupFrame

\* The snapshot effect that runs once isReady and auth.userId are set.
StartupPull(outcome) ==
    /\ boot = "done" /\ isReady /\ appData.auth.userId # "null"
    /\ outcome \in {"ok", "fail"}
    /\ Commit(IF Seen(outcome) THEN ApplySnapshot(appData, ServerSnapshot(remote))
              ELSE appData)
    /\ boot' = "pulled"
    /\ UNCHANGED <<isReady, authToken>>
    /\ StartupFrame

NextStartup ==
    \/ LoadAppData
    \/ \E outcome \in Outcomes : FetchMeReply(outcome)
    \/ \E outcome \in Outcomes : StartupPull(outcome)

SpecStartup == InitStartup /\ [][NextStartup]_vars

Keeps(data, doc) ==
    /\ LiveKeys(doc) \subseteq LiveKeys(data)
    /\ PendingKeys(doc) \subseteq PendingKeys(data)
    /\ TombstoneKeys(doc) \subseteq TombstoneKeys(data)
    /\ doc.profile # NULL => data.profile # NULL
    /\ doc.sync.profilePending => data.sync.profilePending

\* C2: after a startup with a persisted session whose session check failed,
\* AppData and the Local Store still hold every live record, pending entry and tombstone
\* that was persisted before startup.
C2_StartupKeepsPersisted ==
    (boot \in {"done", "pulled"} /\ bootDoc.auth.token # "null" /\ authToken = "null")
        => Keeps(appData, bootDoc) /\ Keeps(store, bootDoc)

\* ------------------------------------------- one pass at a time (C9, C10)
\* Passes started from documents with up to three nutrition dates, with no
\* handler running beside them; passLog records what each pass captured and
\* the remote calls it made.
RECURSIVE Perms(_)
Perms(S) ==
    IF S = {} THEN {<<>>}
    ELSE UNION {{<<x>> \o rest : rest \in Perms(S \ {x})} : x \in S}

OtherKinds ==
    {[workouts |-> <<>>, progressEntries |-> <<>>, sync |-> EmptySync],
     [workouts |-> <<MakeWorkout("w1", 1, NULL)>>,
      progressEntries |-> <<MakeProgressEntry("p1", 1)>>,
      sync |-> [EmptySync EXCEPT !.profilePending = TRUE, !.progressPendingIds = <<"p1">>]],
     [workouts |-> <<>>, progressEntries |-> <<>>,
      sync |-> [EmptySync EXCEPT !.deletedWorkoutIds = <<"w1">>,
                                 !.deletedProgressIds = <<"p1">>]],
     [workouts |-> <<MakeWorkout("w1", 1, NULL)>>, progressEntries |-> <<>>,
      sync |-> [EmptySync EXCEPT !.progressPendingIds = <<"p1">>]]}

PassStartDocs ==
    {[auth |-> SignedIn, profile |-> 1, workouts |-> o.workouts,
      nutritionByDate |-> [d \in logged |-> MakeNutritionLog(d, 1)],
      progressEntries |-> o.progressEntries,
      sync |-> [o.sync EXCEPT !.nutritionPendingDates = pend,
                              !.deletedNutritionDates = dels],
      settings |-> DefaultSettings] :
        o \in OtherKinds,
        logged \in SUBSET PassDates,
        pend \in UNION {Perms(S) : S \in SUBSET PassDates},
        dels \in UNION {Perms(S) : S \in SUBSET PassDates}}

InitPass ==
    /\ appData \in {doc \in PassStartDocs :
                        /\ TombstoneKeys(doc) \cap LiveKeys(doc) = {}
                        /\ TombstoneKeys(doc) \cap PendingKeys(doc) = {}}
    /\ store = appData
    /\ isReady = TRUE
    /\ boot = "pulled"
    /\ authToken = Token
    /\ syncing = FALSE
    /\ remote = createDefaultAppData
    /\ inflight = {}
    /\ passes = [p \in PassIds |-> IdlePass]
    /\ ops = 0
    /\ used = {}
    /\ gone = {}
    /\ delOk = {}
    /\ profileEdit = NULL
    /\ passLog = EmptyLog
    /\ bootDoc = createEmptyAppData
    /\ calm = FALSE
    /\ wiped = {}
    /\ ServerAtRest
    /\ KnowledgeAtRest
    /\ timers = TimersAtMount

\* Each behaviour of SpecPass runs one pass, automatic or with a pull.
TimerPass == passLog = EmptyLog /\ DebounceTimerStep(TRUE)

SyncNowPass == passLog = EmptyLog /\ handleSyncNowStep(TRUE)

\* What the client sees of a reply; whether a failed call reached the server
\* plays no part in the pass.
PassOutcomes == {"ok", "fail"}

LoggedPassReply(p, outcome) == PassReplyStep(p, outcome, TRUE)

NextPass ==
    \/ TimerPass
    \/ SyncNowPass
    \/ \E p \in PassIds, outcome \in PassOutcomes : LoggedPassReply(p, outcome)

SpecPass == InitPass /\ [][NextPass]_vars

LoggedCalls == passLog.calls

AttemptedCalls ==
    {<<LoggedCalls[i].call.op, LoggedCalls[i].call.key>> : i \in DOMAIN LoggedCalls}

\* The items of a captured document that need a remote call: every tombstone,
\* the pending profile, and every pending record that exists in the capture.
CapturedWork(start) ==
    {<<"delWorkout", id>> : id \in Range(start.sync.deletedWorkoutIds)}
    \cup {<<"delNutrition", date>> : date \in Range(start.sync.deletedNutritionDates)}
    \cup {<<"delProgress", id>> : id \in Range(start.sync.deletedProgressIds)}
    \cup (IF start.profile # NULL /\ start.sync.profilePending
          THEN {<<"pushProfile", "">>} ELSE {})
    \cup {<<"pushNutrition", date>> :
             date \in Range(start.sync.nutritionPendingDates) \cap DOMAIN start.nutritionByDate}
    \cup {<<"pushProgress", id>> :
             id \in Range(start.sync.progressPendingIds) \cap Ids(start.progressEntries)}
    \cup {<<"pushWorkout", id>> :
             id \in Ids(UnsyncedWorkouts(start)) \ Range(start.sync.deletedWorkoutIds)}

\* C9: when a pass has ended, every tombstone and every pending item it captured
\* at its start has had its remote call attempted, whichever calls failed.
C9_EveryCapturedItemAttempted ==
    passLog.done => CapturedWork(passLog.start) \subseteq AttemptedCalls

C9_Witness ==
    /\ passLog.done
    /\ Len(LoggedCalls) >= 3
    /\ LoggedCalls[1].outcome = "fail"
    /\ LoggedCalls[1].call.op = "delWorkout"
    /\ \E i \in DOMAIN LoggedCalls : LoggedCalls[i].call.op = "pushNutrition"

FailedKeys(op) ==
    {LoggedCalls[i].call.key :
        i \in {j \in DOMAIN LoggedCalls : /\ LoggedCalls[j].call.op = op
                                          /\ LoggedCalls[j].outcome # "ok"}}

KeepFailed(items, op) == SelectSeq(items, LAMBDA key : key \in FailedKeys(op))

\* C10: after a pass that ran alone, each pending set and each tombstone set
\* holds exactly its pass-start entries whose remote call failed in the pass.
C10_OnlyFailedRemain ==
    passLog.done =>
        LET start == passLog.start.sync
            now == appData.sync
        IN  /\ now.nutritionPendingDates = KeepFailed(start.nutritionPendingDates, "pushNutrition")
            /\ now.progressPendingIds = KeepFailed(start.progressPendingIds, "pushProgress")
            /\ now.deletedWorkoutIds = KeepFailed(start.deletedWorkoutIds, "delWorkout")
            /\ now.deletedNutritionDates = KeepFailed(start.deletedNutritionDates, "delNutrition")
            /\ now.deletedProgressIds = KeepFailed(start.deletedProgressIds, "delProgress")

C10_Witness ==
    /\ passLog.done
    /\ Len(passLog.start.sync.nutritionPendingDates) = 3
    /\ Len(LoggedCalls) = 3
    /\ \A i \in 1..3 : LoggedCalls[i].call.op = "pushNutrition"
    /\ LoggedCalls[1].outcome = "ok"
    /\ LoggedCalls[2].outcome = "fail"
    /\ LoggedCalls[3].outcome = "ok"
    /\ appData.sync.nutritionPendingDates = <<passLog.start.sync.nutritionPendingDates[2]>>

\* --------------------------------------------------------- liveness (C8)
\* The profile edits, Reset All Data and the orchestrator, with the scheduling
\* the runtime guarantees: a due timer fires and every awaited call returns.
\* GoCalm marks the point from which every call succeeds and the user is idle.
GoCalm ==
    /\ ~calm
    /\ calm' = TRUE
    /\ UNCHANGED <<appData, store, isReady, boot, authToken, syncing, remote, inflight,
                   passes, ops, used, gone, delOk, profileEdit, passLog, bootDoc, wiped,
                   serverVars, knowledgeVars>>
    /\ DebounceEffect

NextLive ==
    \/ completeOnboarding
    \/ handleSaveProfile
    \/ handleResetAllData
    \/ handleSyncNow
    \/ DebounceTimer
    \/ \E c \in inflight, outcome \in Outcomes : HandlerReply(c, outcome)
    \/ \E outcome \in Outcomes : ResetReply(outcome)
    \/ \E p \in PassIds, outcome \in Outcomes : PassReply(p, outcome)
    \/ GoCalm

Fairness ==
    /\ WF_vars(DebounceTimer)
    /\ WF_vars(\E c \in inflight, outcome \in Outcomes : HandlerReply(c, outcome))
    /\ WF_vars(\E outcome \in Outcomes : ResetReply(outcome))
    /\ WF_vars(\E p \in PassIds, outcome \in Outcomes : PassReply(p, outcome))

SpecLive == Init /\ [][NextLive]_vars /\ Fairness

\* C8: once every call succeeds and the user is idle, the pending total
\* eventually is zero and stays zero.
C8_EventuallyDrained == [](calm => <>[](PendingTotal(appData) = 0))

\* ------------------------------------------ the merge on its own (C11-C16)
\* mergeSnapshot and the pull updater applied to local documents and remote
\* snapshots drawn from small sets: rows on two days, created at two times or
\* (remote) with no createdAt, keys on one side or on both, tombstoned or not.
\* `bootDoc` keeps the local input, `remote` is the snapshot, `appData` the
\* document the merge is applied to, `ops` the number of merges made.
MaxMerges == 2

MergeDays == {1, 2}

LocalWorkoutRows ==
    {[id |-> id, date |-> d, createdAt |-> c, ver |-> 1, exerciseEntries |-> "list",
      syncedAt |-> NULL] : id \in {"w1", "w2"}, d \in MergeDays, c \in MergeDays}

RemoteWorkoutRows ==
    {[id |-> id, date |-> d, createdAt |-> c, ver |-> 2, exerciseEntries |-> "absent",
      syncedAt |-> Now] : id \in {"w1", "w3"}, d \in MergeDays, c \in {NULL} \cup MergeDays}

LocalProgressRows ==
    {[id |-> id, date |-> d, ver |-> 1] : id \in {"p1", "p2"}, d \in MergeDays}

RemoteProgressRows ==
    {[id |-> id, date |-> d, ver |-> 2] : id \in {"p1", "p3"}, d \in MergeDays}

UpToOne(rows) == {<<>>} \cup {<<r>> : r \in rows}

UpToTwo(rows) ==
    UpToOne(rows) \cup {<<p[1], p[2]>> : p \in {q \in rows \X rows : q[1].id # q[2].id}}

LocalNutrition == {EmptyMap, [d \in {"d1"} |-> MakeNutritionLog(d, 1)]}

RemoteNutrition ==
    {EmptyMap, [d \in {"d1"} |-> MakeNutritionLog(d, 2)],
     [d \in {"d1", "d2"} |-> MakeNutritionLog(d, 2)]}

MergeLocal(pr, w, n, g, sy) ==
    [auth |-> SignedIn, profile |-> pr, workouts |-> w, nutritionByDate |-> n,
     progressEntries |-> g, sync |-> sy, settings |-> DefaultSettings]

MergeRemote(pr, w, n, g) ==
    [profile |-> pr, workouts |-> w, nutritionByDate |-> n, progressEntries |-> g]

\* Pairs <<local, remote>>: the three record kinds are varied one at a time.
WorkoutMergeInputs ==
    {<<MergeLocal(1, w, EmptyMap, <<>>, [EmptySync EXCEPT !.deletedWorkoutIds = dw]),
       MergeRemote(2, rw, EmptyMap, <<>>)>> :
        w \in UpToTwo(LocalWorkoutRows), rw \in UpToTwo(RemoteWorkoutRows),
        dw \in {<<>>, <<"w1">>}}

ProgressMergeInputs ==
    {<<MergeLocal(1, <<>>, EmptyMap, g,
                  [EmptySync EXCEPT !.deletedProgressIds = dp, !.progressPendingIds = pp]),
       MergeRemote(2, <<>>, EmptyMap, rg)>> :
        g \in UpToTwo(LocalProgressRows), rg \in UpToOne(RemoteProgressRows),
        dp \in {<<>>, <<"p1">>}, pp \in {<<>>, <<"p2">>}}

NutritionMergeInputs ==
    {<<MergeLocal(pr, <<>>, n, <<>>,
                  [EmptySync EXCEPT !.profilePending = pending,
                                    !.nutritionPendingDates = marks[1],
                                    !.deletedNutritionDates = marks[2]]),
       MergeRemote(rpr, <<>>, rn, <<>>)>> :
        pr \in {NULL, 1}, rpr \in {NULL, 2}, pending \in BOOLEAN,
        n \in LocalNutrition, rn \in RemoteNutrition,
        marks \in {<<<<>>, <<>>>>, <<<<"d1">>, <<>>>>, <<<<>>, <<"d1">>>>}}

MergeInputs == WorkoutMergeInputs \cup ProgressMergeInputs \cup NutritionMergeInputs

InitMerge ==
    /\ \E input \in MergeInputs :
          /\ appData = input[1]
          /\ bootDoc = input[1]
          /\ store = input[1]
          /\ remote = input[2]
    /\ boot \in {"merge", "pull"}
    /\ isReady = TRUE
    /\ authToken = Token
    /\ syncing = FALSE
    /\ inflight = {}
    /\ passes = [p \in PassIds |-> IdlePass]
    /\ ops = 0
    /\ used = {}
    /\ gone = {}
    /\ delOk = {}
    /\ profileEdit = NULL
    /\ passLog = EmptyLog
    /\ calm = FALSE
    /\ wiped = {}
    /\ ServerAtRest
    /\ KnowledgeAtRest
    /\ timers = TimersAtMount

MergeFrame ==
    /\ UNCHANGED <<isReady, boot, authToken, syncing, remote, inflight, passes, used, gone,
                   delOk, profileEdit, passLog, bootDoc, wiped, calm, serverVars, knowledgeVars>>
    /\ DebounceEffect

\* The clock of the n-th merge: later than every timestamp in the inputs.
MergeClock == 3 + ops

\* mergeSnapshot(appData, remote) on its own.
MergeSnapshotStep ==
    /\ boot = "merge" /\ ops < MaxMerges
    /\ Commit(mergeSnapshotAt(appData, remote, MergeClock))
    /\ ops' = ops + 1
    /\ MergeFrame

\* The pull's updater: setAppData(prev => ({...mergeSnapshot(prev, snapshot), sync: ...})).
PullSnapshotStep ==
    /\ boot = "pull" /\ ops < MaxMerges
    /\ Commit(ApplySnapshot(appData, remote))
    /\ ops' = ops + 1
    /\ MergeFrame

NextMerge == MergeSnapshotStep \/ PullSnapshotStep

SpecMerge == InitMerge /\ [][NextMerge]_vars

Merged == boot \in {"merge", "pull"} /\ ops >= 1

RowsOf(items, id) == {items[i] : i \in {j \in DOMAIN items : items[j].id = id}}

Occurrences(items, id) == Cardinality({j \in DOMAIN items : items[j].id = id})

\* C11: for a key present in both the local and the remote collection and not
\* tombstoned, the merge output holds the local record, once, never the remote.
C11_LocalWinsOnCollision ==
    Merged =>
        /\ \A id \in (Ids(bootDoc.workouts) \cap Ids(remote.workouts))
                         \ Range(bootDoc.sync.deletedWorkoutIds) :
              /\ RowsOf(appData.workouts, id) = RowsOf(bootDoc.workouts, id)
              /\ Occurrences(appData.workouts, id) = 1
        /\ \A id \in (Ids(bootDoc.progressEntries) \cap Ids(remote.progressEntries))
                         \ Range(bootDoc.sync.deletedProgressIds) :
              /\ RowsOf(appData.progressEntries, id) = RowsOf(bootDoc.progressEntries, id)
              /\ Occurrences(appData.progressEntries, id) = 1
        /\ \A date \in ((DOMAIN bootDoc.nutritionByDate) \cap (DOMAIN remote.nutritionByDate))
                           \ Range(bootDoc.sync.deletedNutritionDates) :
              /\ date \in DOMAIN appData.nutritionByDate
              /\ appData.nutritionByDate[date] = bootDoc.nutritionByDate[date]

C11_Witness ==
    /\ ops = 1
    /\ "w1" \in Ids(bootDoc.workouts) \cap Ids(remote.workouts)
    /\ bootDoc.sync.deletedWorkoutIds = <<>>
    /\ "w3" \in Ids(appData.workouts)
    /\ \E row \in RowsOf(appData.workouts, "w1") : row.ver = 1

\* C12: the merged profile is the local one when profilePending and local is
\* non-null, the remote one when not pending and remote is non-null, the other
\* side's when the preferred one is null, and null only when both are null.
C12_ProfileSelection ==
    Merged =>
        LET local == bootDoc.profile
            other == remote.profile
            pending == bootDoc.sync.profilePending
        IN  /\ (pending /\ local # NULL) => appData.profile = local
            /\ (~pending /\ other # NULL) => appData.profile = other
            /\ (pending /\ local = NULL) => appData.profile = other
            /\ (~pending /\ other = NULL) => appData.profile = local
            /\ appData.profile = NULL <=> (local = NULL /\ other = NULL)

C12_Witness ==
    /\ ops = 1
    /\ bootDoc.sync.profilePending
    /\ bootDoc.profile = 1
    /\ remote.profile = 2
    /\ appData.profile = 1

\* C13: the merge output holds no workout, nutrition date or progress entry
\* whose key is tombstoned, whether it came from the snapshot or the local data.
C13_NoTombstonedInOutput ==
    Merged =>
        /\ Ids(appData.workouts) \cap Range(bootDoc.sync.deletedWorkoutIds) = {}
        /\ (DOMAIN appData.nutritionByDate) \cap Range(bootDoc.sync.deletedNutritionDates) = {}
        /\ Ids(appData.progressEntries) \cap Range(bootDoc.sync.deletedProgressIds) = {}

C13_Witness ==
    /\ ops = 1
    /\ "d1" \in (DOMAIN bootDoc.nutritionByDate) \cap (DOMAIN remote.nutritionByDate)
    /\ bootDoc.sync.deletedNutritionDates = <<"d1">>
    /\ DOMAIN appData.nutritionByDate = {"d2"}

\* C14: merging the same snapshot a second time, at a later time, gives the
\* result of the first merge in every field, order included.
C14_MergeIdempotent ==
    (boot = "merge" /\ ops = 2) =>
        appData = mergeSnapshotAt(bootDoc, remote, MergeClock - ops)

C14_Witness ==
    /\ boot = "merge" /\ ops = 2
    /\ bootDoc.sync.deletedWorkoutIds = <<>>
    /\ "w2" \in Ids(bootDoc.workouts)
    /\ \E i \in DOMAIN remote.workouts :
          /\ remote.workouts[i].id = "w3"
          /\ remote.workouts[i].createdAt = NULL
    /\ Len(appData.workouts) >= 2

\* C15: mergeSnapshot returns the local sync, settings and auth unchanged, and
\* a pull changes no sync field but lastSuccessfulSyncAt.
C15_MergeKeepsSync ==
    Merged =>
        /\ appData.settings = bootDoc.settings
        /\ appData.auth = bootDoc.auth
        /\ boot = "merge" => appData.sync = bootDoc.sync
        /\ boot = "pull" =>
              [appData.sync EXCEPT !.lastSuccessfulSyncAt = NULL]
                  = [bootDoc.sync EXCEPT !.lastSuccessfulSyncAt = NULL]

C15_Witness ==
    /\ boot = "pull" /\ ops = 1
    /\ bootDoc.sync.progressPendingIds = <<"p2">>
    /\ bootDoc.sync.deletedProgressIds = <<"p1">>
    /\ remote.progressEntries # <<>>
    /\ appData.sync.lastSuccessfulSyncAt # bootDoc.sync.lastSuccessfulSyncAt

\* C16: in a merge output the workouts are in descending date order, equal
\* dates in descending createdAt order, and the progress entries in descending
\* date order.
C16_MergeOutputSorted ==
    Merged =>
        /\ \A i, j \in DOMAIN appData.workouts :
              i < j => \/ appData.workouts[i].date > appData.workouts[j].date
                       \/ /\ appData.workouts[i].date = appData.workouts[j].date
                          /\ appData.workouts[i].createdAt >= appData.workouts[j].createdAt
        /\ \A i, j \in DOMAIN appData.progressEntries :
              i < j => appData.progressEntries[i].date >= appData.progressEntries[j].date

C16_Witness ==
    /\ ops = 1
    /\ remote.workouts = <<>>
    /\ bootDoc.sync.deletedWorkoutIds = <<>>
    /\ Len(bootDoc.workouts) = 2
    /\ bootDoc.workouts[1].date < bootDoc.workouts[2].date
    /\ appData.workouts = <<bootDoc.workouts[2], bootDoc.workouts[1]>>

\* ------------------------------------------------- the API server (C18-C20)
\* Requests of two signed-in users against the store, each store call split at
\* its awaits: the Postgres query and, when the file store is not cached, the
\* readFile.  `ops` counts the requests received.
MaxRequests == 3

\* A profile is the number 10 * k + v: k says which id it carries, v is its
\* content; 0 is null.
IdNames == <<"uA", "uB", "spoofed-profile-id">>

ProfileWithId(k, v) == 10 * k + v

ProfileIdOf(profile) == IdNames[profile \div 10]

IdIndex(name) == CHOOSE k \in DOMAIN IdNames : IdNames[k] = name

UserOf(token) == (CHOOSE s \in AllSessions : s[1] = token)[2]

\* The requests a client holding `token` sends.
Routes(token) ==
    {Call("pushProfile", "", ProfileWithId(k, 1), NULL) : k \in {IdIndex(UserOf(token)), 3}}
    \cup {Call("getProfile", "", NULL, NULL), Call("fetchSnapshot", "", NULL, NULL),
          Call("pushWorkout", "w1", 1, NULL), Call("delWorkout", "w1", NULL, NULL),
          Call("reset", "", NULL, NULL)}

WriteRoutes == {"pushProfile", "pushWorkout", "delWorkout", "pushNutrition", "pushProgress"}

\* The file half of the request's store call ends with writeFileStoreData.
FileWrites(r) ==
    \/ r.phase \in {"write", "reset"}
    \/ r.phase = "read" /\ r.route.op \in WriteRoutes

\* A fallback that records the reason and leaves the backend as it was.
activateFileFallbackKeepsBackend(backend, reason) ==
    [activeBackend |-> backend,
     fallbackReason |-> IF backend # "file" THEN "Postgres unavailable" ELSE reason]

activateFileFallback(backend, reason) ==
    [activeBackend |-> "file",
     fallbackReason |-> IF backend # "file" THEN "Postgres unavailable" ELSE reason]

\* getAuthSessionUserIdFromFile / FromPostgres: "" is null.
getAuthSessionUserId(stored, token) ==
    IF \E s \in stored.sessions : s[1] = token
    THEN (CHOOSE s \in stored.sessions : s[1] = token)[2]
    ELSE ""

readAppData(stored, userId) == stored.userData[userId]

writeAppData(stored, userId, data) == [stored EXCEPT !.userData[userId] = data]

resetAppData(stored, userId) == [stored EXCEPT !.userData[userId] = createDefaultAppData]

Respond(t, r, status, profile, data, backend, wrote) ==
    [route |-> r.route, userId |-> r.userId, status |-> status, profile |-> profile,
     data |-> data, startedOn |-> r.startedOn, pgFailed |-> r.pgFailed, served |-> backend,
     own |-> IF ~wrote THEN responses[t].own
             ELSE IF r.route.op = "reset" THEN createDefaultAppData
             ELSE ServerApply(responses[t].own, r.route)]

\* The store call of the request's phase carried out on `stored` by `backend`,
\* and the route handler run up to its next store call or its response.  A
\* Postgres call settles on a later turn of the event loop, so a write route
\* stops between its read and its write.  A file call on a loaded cache
\* awaits only settled promises: the route goes from the data it read to the
\* assignment in writeAppDataToFile with no other request in between.
AfterStoreCall(t, r, stored, backend) ==
        CASE r.phase = "session" ->
               LET userId == getAuthSessionUserId(stored, t)
               IN  IF userId = ""
                   THEN [stored |-> stored, request |-> IdleRequest,
                         response |-> Respond(t, r, 401, NULL, createDefaultAppData,
                                              backend, FALSE)]
                   ELSE [stored |-> stored,
                         request |-> [r EXCEPT
                             !.phase = IF r.route.op = "reset" THEN "reset" ELSE "read",
                             !.sub = "call", !.userId = userId, !.served = backend],
                         response |-> responses[t]]
          [] r.phase = "read" ->
               LET data == readAppData(stored, r.userId)
                   changed == ServerApply(data, r.route)
               IN  IF r.route.op \in WriteRoutes /\ backend = "file"
                   THEN [stored |-> writeAppData(stored, r.userId, changed),
                         request |-> IdleRequest,
                         response |-> Respond(t, r, 200, changed.profile, changed,
                                              backend, TRUE)]
                   ELSE IF r.route.op \in WriteRoutes
                   THEN [stored |-> stored,
                         request |-> [r EXCEPT !.phase = "write", !.sub = "call",
                                               !.data = ServerApply(data, r.route),
                                               !.served = backend],
                         response |-> responses[t]]
                   ELSE [stored |-> stored, request |-> IdleRequest,
                         response |-> Respond(t, r, 200, data.profile, ServerSnapshot(data),
                                              backend, FALSE)]
          [] r.phase = "write" ->
               [stored |-> writeAppData(stored, r.userId, r.data), request |-> IdleRequest,
                response |-> Respond(t, r, 200, r.data.profile, r.data, backend, TRUE)]
          [] OTHER ->
               [stored |-> resetAppData(stored, r.userId), request |-> IdleRequest,
                response |-> Respond(t, [r EXCEPT !.route = Call("reset", "", NULL, NULL)],
                                     200, NULL, createDefaultAppData, backend, TRUE)]

ServerFrame ==
    /\ UNCHANGED <<appData, store, isReady, boot, authToken, syncing, remote, inflight,
                   passes, used, gone, delOk, profileEdit, passLog, bootDoc, wiped, calm,
                   knowledgeVars>>
    /\ DebounceEffect

InitServer ==
    /\ activeBackend \in {"file", "postgres"}
    /\ fallbackReason = "null"
    /\ fileCache = <<>>
    /\ \E sessions \in {{}, AllSessions} :
          /\ activeBackend = "file" => sessions = AllSessions
          /\ dataFile = [createDefaultFileStoreData EXCEPT !.sessions = sessions]
    /\ postgres = [createDefaultFileStoreData EXCEPT !.sessions = AllSessions]
    /\ requests = [t \in Tokens |-> IdleRequest]
    /\ responses = [t \in Tokens |-> NoResponse]
    /\ appData = createEmptyAppData
    /\ store = createEmptyAppData
    /\ isReady = FALSE
    /\ boot = "server"
    /\ authToken = "null"
    /\ syncing = FALSE
    /\ remote = createDefaultAppData
    /\ inflight = {}
    /\ passes = [p \in PassIds |-> IdlePass]
    /\ ops = 0
    /\ used = {}
    /\ gone = {}
    /\ delOk = {}
    /\ profileEdit = NULL
    /\ passLog = EmptyLog
    /\ bootDoc = createEmptyAppData
    /\ wiped = {}
    /\ calm = FALSE
    /\ KnowledgeAtRest
    /\ timers = TimersAtMount

\* A request arrives with the Authorization header `Bearer t`.
Receive(t, route) ==
    /\ boot = "server" /\ requests[t].phase = "idle" /\ ops < MaxRequests
    /\ requests' = [requests EXCEPT ![t] =
                       [IdleRequest EXCEPT !.phase = "session", !.route = route]]
    /\ ops' = ops + 1
    /\ UNCHANGED <<activeBackend, fallbackReason, fileCache, dataFile, postgres, responses>>
    /\ ServerFrame

\* The file half of a store function: readFileStoreData returns the cache, or
\* starts readFile when nothing is cached; then the operation runs on the cache
\* and a write is put on disk.
FileCall(t, r) ==
    IF fileCache = <<>>
    THEN /\ requests' = [requests EXCEPT ![t] = [r EXCEPT !.sub = "load", !.raw = dataFile]]
         /\ UNCHANGED <<fileCache, dataFile, responses>>
    ELSE LET done == AfterStoreCall(t, r, fileCache[1], "file")
         IN  /\ requests' = [requests EXCEPT ![t] = done.request]
             /\ responses' = [responses EXCEPT ![t] = done.response]
             /\ fileCache' = <<done.stored>>
             /\ dataFile' = IF FileWrites(r) THEN done.stored ELSE dataFile

\* readAppData / writeAppData / resetAppData / getAuthSessionUserId is called:
\* the Postgres query is sent when the active backend is postgres, the file
\* half runs otherwise.
StoreCall(t) ==
    /\ boot = "server" /\ requests[t].phase # "idle" /\ requests[t].sub = "call"
    /\ IF activeBackend = "postgres"
       THEN /\ requests' = [requests EXCEPT ![t] =
                               [@ EXCEPT !.sub = "pg", !.startedOn = "postgres"]]
            /\ UNCHANGED <<fileCache, dataFile, responses>>
       ELSE FileCall(t, [requests[t] EXCEPT !.startedOn = "file"])
    /\ UNCHANGED <<activeBackend, fallbackReason, postgres, ops>>
    /\ ServerFrame

\* The Postgres query settles.  On an error the catch activates the file
\* fallback and the function goes on to its file half.
PostgresReply(t, outcome) ==
    /\ boot = "server" /\ requests[t].sub = "pg"
    /\ IF outcome = "ok"
       THEN LET done == AfterStoreCall(t, requests[t], postgres, "postgres")
            IN  /\ requests' = [requests EXCEPT ![t] = done.request]
                /\ responses' = [responses EXCEPT ![t] = done.response]
                /\ postgres' = done.stored
                /\ UNCHANGED <<activeBackend, fallbackReason>>
       ELSE /\ activeBackend' = activateFileFallback(activeBackend, fallbackReason).activeBackend
            /\ fallbackReason' = activateFileFallback(activeBackend, fallbackReason).fallbackReason
            /\ requests' = [requests EXCEPT ![t] = [@ EXCEPT !.sub = "file", !.pgFailed = TRUE]]
            /\ UNCHANGED <<postgres, responses>>
    /\ UNCHANGED <<fileCache, dataFile, ops>>
    /\ ServerFrame

\* After the catch: the file half of the same store function.
FallThrough(t) ==
    /\ boot = "server" /\ requests[t].sub = "file"
    /\ FileCall(t, requests[t])
    /\ UNCHANGED <<activeBackend, fallbackReason, postgres, ops>>
    /\ ServerFrame

\* readFile settles: readFileStoreData assigns what it parsed to fileCache,
\* whatever fileCache holds by now, and the operation runs on that object.
ReadFileReply(t) ==
    /\ boot = "server" /\ requests[t].sub = "load"
    /\ LET r == requests[t]
           done == AfterStoreCall(t, r, r.raw, "file")
       IN  /\ requests' = [requests EXCEPT ![t] = done.request]
           /\ responses' = [responses EXCEPT ![t] = done.response]
           /\ fileCache' = <<done.stored>>
           /\ dataFile' = IF FileWrites(r) THEN done.stored ELSE dataFile
    /\ UNCHANGED <<activeBackend, fallbackReason, postgres, ops>>
    /\ ServerFrame

NextServer ==
    \/ \E t \in Tokens : \E route \in Routes(t) : Receive(t, route)
    \/ \E t \in Tokens : StoreCall(t)
    \/ \E t \in Tokens : \E outcome \in {"ok", "fail"} : PostgresReply(t, outcome)
    \/ \E t \in Tokens : FallThrough(t)
    \/ \E t \in Tokens : ReadFileReply(t)

SpecServer == InitServer /\ [][NextServer]_vars

\* getStorageInfo: what GET /health reports.
getStorageInfo == [backend |-> activeBackend, fallbackReason |-> fallbackReason]

\* C18: every answer to PUT or GET /api/v1/profile that carries a profile
\* carries one whose id is the user the bearer token resolved to.
C18_ProfileIdIsRequestUser ==
    \A t \in Tokens :
        (/\ responses[t].route.op \in {"pushProfile", "getProfile"}
         /\ responses[t].status = 200
         /\ responses[t].profile # NULL)
        => ProfileIdOf(responses[t].profile) = responses[t].userId

\* What readAppData(userId) returns when called now.
ReadNow(userId) ==
    IF activeBackend = "postgres" THEN readAppData(postgres, userId)
    ELSE IF fileCache # <<>> THEN readAppData(fileCache[1], userId)
    ELSE readAppData(dataFile, userId)

\* C19: while no storage fallback has happened, what a user with no request
\* under way reads is exactly what that user's own acknowledged writes amount
\* to: no request made with another token changes it.
C19_UsersIsolated ==
    \A t \in Tokens :
        (fallbackReason = "null" /\ requests[t].phase = "idle")
        => ReadNow(UserOf(t)) = responses[t].own

\* C20: once a Postgres operation has failed, storage info reports backend
\* "file" with a fallback reason, and the backend stays "file"; the operation
\* that failed is completed by the file store; and every operation that starts
\* while the backend is "file" is carried out by the file store.
C20_FallbackToFile ==
    /\ fallbackReason # "null" => getStorageInfo.backend = "file"
    /\ \A t \in Tokens :
          /\ requests[t].pgFailed =>
                /\ getStorageInfo.backend = "file"
                /\ getStorageInfo.fallbackReason # "null"
                /\ requests[t].sub # "pg"
                /\ requests[t].sub = "call" => requests[t].served = "file"
          /\ (requests[t].startedOn = "file" /\ requests[t].sub = "call")
                => requests[t].served = "file"
          /\ responses[t].pgFailed => responses[t].served = "file"
          /\ responses[t].startedOn = "file" => responses[t].served = "file"

\* A write whose Postgres query failed was answered 200 from the file store,
\* and a later request of the other user ran on the file store as well.
C20_Witness ==
    \E t \in Tokens : \E u \in Tokens \ {t} :
        /\ responses[t].pgFailed /\ responses[t].status = 200
        /\ responses[t].route.op \in WriteRoutes
        /\ responses[t].served = "file"
        /\ ~responses[u].pgFailed /\ responses[u].status = 200
        /\ responses[u].startedOn = "file" /\ responses[u].served = "file"
        /\ getStorageInfo.backend = "file" /\ getStorageInfo.fallbackReason # "null"

\* ------------------------------------------ updating a workout (C21, C22)
\* handleUpdateWorkout called on workout lists drawn from a small set: up to
\* two workouts on two days, created at two times, synced or not, and an id
\* that is in the list or not.  `bootDoc` keeps the document before the calls.
UpdateIds == {"w1", "w2", "missing-id"}

UpdateWorkoutRows ==
    {[id |-> id, date |-> d, createdAt |-> c, ver |-> 0, exerciseEntries |-> "list",
      syncedAt |-> sy] : id \in {"w1", "w2"}, d \in MergeDays, c \in MergeDays,
                         sy \in {NULL, Now}}

InitUpdate ==
    /\ \E w \in UpToTwo(UpdateWorkoutRows) :
          /\ appData = MergeLocal(1, w, EmptyMap, <<>>, EmptySync)
          /\ bootDoc = appData
          /\ store = appData
    /\ boot = "update"
    /\ remote = createDefaultAppData
    /\ isReady = TRUE
    /\ authToken = Token
    /\ syncing = FALSE
    /\ inflight = {}
    /\ passes = [p \in PassIds |-> IdlePass]
    /\ ops = 0
    /\ used = {}
    /\ gone = {}
    /\ delOk = {}
    /\ profileEdit = NULL
    /\ passLog = EmptyLog
    /\ calm = FALSE
    /\ wiped = {}
    /\ ServerAtRest
    /\ KnowledgeAtRest
    /\ timers = TimersAtMount

\* handleUpdateWorkout when updateWorkoutInList finds no such workout: the
\* handler returns before setAppData and before syncWorkoutLog.
handleUpdateWorkoutReturns(id) ==
    /\ OnTabs /\ CanCall
    /\ updateWorkoutInList(appData.workouts, id, NewVer).updatedWorkout = <<>>
    /\ ops' = ops + 1
    /\ UNCHANGED <<appData, store, isReady, boot, authToken, syncing, remote, inflight,
                   passes, used, gone, delOk, profileEdit, passLog, bootDoc, wiped, calm,
                   serverVars, knowledgeVars>>
    /\ DebounceEffect

NextUpdate ==
    \/ \E id \in UpdateIds : boot = "update" /\ handleUpdateWorkout(id)
    \/ \E id \in UpdateIds : boot = "update" /\ handleUpdateWorkoutReturns(id)

SpecUpdate == InitUpdate /\ [][NextUpdate]_vars

\* The update push that a step issues for `id`.
IssuedUpdate(id) == \E c \in inflight' \ inflight : c.op = "pushWorkout" /\ c.key = id

\* C21: an update of a workout that is in the list leaves the list's length
\* and order as they were and changes that workout only: it gets the draft's
\* fields, keeps its id, date and createdAt, and its syncedAt is null whatever
\* it was before.
C21_UpdateChangesOneWorkout ==
    [][\A id \in UpdateIds :
          (boot = "update" /\ id \in Ids(appData.workouts) /\ IssuedUpdate(id))
          => /\ Len(appData'.workouts) = Len(appData.workouts)
             /\ \A i \in DOMAIN appData.workouts :
                   appData'.workouts[i] =
                       IF appData.workouts[i].id = id
                       THEN [id |-> id, date |-> appData.workouts[i].date,
                             createdAt |-> appData.workouts[i].createdAt,
                             ver |-> NewVer, exerciseEntries |-> "list",
                             syncedAt |-> NULL]
                       ELSE appData.workouts[i]]_vars

\* The second of two workouts, synced before, has been updated once: it is
\* unsynced and in its place, the first workout is as it was.
C21_Witness ==
    /\ boot = "update" /\ ops = 1 /\ Len(bootDoc.workouts) = 2
    /\ bootDoc.workouts[2].syncedAt # NULL
    /\ appData.workouts[2].id = bootDoc.workouts[2].id
    /\ appData.workouts[2].ver # bootDoc.workouts[2].ver
    /\ appData.workouts[2].syncedAt = NULL
    /\ appData.workouts[1] = bootDoc.workouts[1]

\* C22: for an id that is not in the list updateWorkoutInList returns the
\* same list and no updated workout, and a step of the update handler that
\* changes the document, the store or the requests in flight is always the
\* update of an id that is in the list.
C22_UnknownIdIsNoOp ==
    /\ [](boot = "update" =>
            \A id \in UpdateIds \ Ids(appData.workouts) :
                updateWorkoutInList(appData.workouts, id, NewVer)
                    = [workouts |-> appData.workouts, updatedWorkout |-> <<>>])
    /\ [][(boot = "update" /\ <<appData, store, inflight, passes>>' # <<appData, store, inflight, passes>>)
          => \E id \in Ids(appData.workouts) : IssuedUpdate(id)]_vars

\* The handler has been called with unknown ids only: nothing has changed
\* and nothing is in flight.
C22_Witness ==
    /\ boot = "update" /\ ops = 2 /\ "missing-id" \notin Ids(appData.workouts)
    /\ appData = bootDoc /\ store = bootDoc /\ inflight = {}
    /\ Len(appData.workouts) = 1

\* --------------------------------------------- the resolve functions (C23)
\* resolve*Pending and resolve*DeletePending applied, up to MaxResolves times,
\* to sync states drawn from StoredSyncs, with keys that are in their set or
\* not.  `bootDoc` keeps the document before the calls, `passLog.calls` the
\* calls made.
MaxResolves == 2

ResolveCalls ==
    {Call("pushNutrition", "d1", NULL, NULL), Call("pushProgress", "p1", NULL, NULL),
     Call("delWorkout", "w1", NULL, NULL), Call("delNutrition", "d1", NULL, NULL),
     Call("delProgress", "p1", NULL, NULL)}

InitResolve ==
    /\ \E sy \in StoredSyncs : \E at \in {NULL, Now} :
          /\ TombstoneKeys([sync |-> sy]) \cap PendingKeys([sync |-> sy]) = {}
          /\ appData = MergeLocal(1, <<>>, EmptyMap, <<>>,
                                  [sy EXCEPT !.lastSuccessfulSyncAt = at])
          /\ bootDoc = appData
          /\ store = appData
    /\ boot = "resolve"
    /\ remote = createDefaultAppData
    /\ isReady = TRUE
    /\ authToken = Token
    /\ syncing = FALSE
    /\ inflight = {}
    /\ passes = [p \in PassIds |-> IdlePass]
    /\ ops = 0
    /\ used = {}
    /\ gone = {}
    /\ delOk = {}
    /\ profileEdit = NULL
    /\ passLog = EmptyLog
    /\ calm = FALSE
    /\ wiped = {}
    /\ ServerAtRest
    /\ KnowledgeAtRest
    /\ timers = TimersAtMount

\* The resolve function that follows the success of call c.
ResolveStep(c) ==
    /\ boot = "resolve" /\ ops < MaxResolves
    /\ Commit(PassEffect(appData, c, TRUE, remote))
    /\ passLog' = [passLog EXCEPT !.calls = Append(@, c)]
    /\ ops' = ops + 1
    /\ UNCHANGED <<isReady, boot, authToken, syncing, remote, inflight, passes, used,
                   gone, delOk, profileEdit, bootDoc, wiped, calm, serverVars, knowledgeVars>>
    /\ DebounceEffect

NextResolve == \E c \in ResolveCalls : ResolveStep(c)

SpecResolve == InitResolve /\ [][NextResolve]_vars

\* The set of the sync state that the resolve function for call c filters.
ResolvedSet(sync, c) ==
    CASE c.op = "pushNutrition" -> sync.nutritionPendingDates
      [] c.op = "pushProgress"  -> sync.progressPendingIds
      [] c.op = "delWorkout"    -> sync.deletedWorkoutIds
      [] c.op = "delNutrition"  -> sync.deletedNutritionDates
      [] OTHER                  -> sync.deletedProgressIds

ResolvesAbsent(c) ==
    /\ boot = "resolve" /\ passLog'.calls = Append(passLog.calls, c)
    /\ ~Includes(ResolvedSet(appData.sync, c), c.key)

SameButStamp(a, b) ==
    a = [b EXCEPT !.sync = [b.sync EXCEPT
                               !.lastSuccessfulSyncAt = a.sync.lastSuccessfulSyncAt]]

\* C23 as stated: a resolve of a key that is absent from its set leaves the
\* whole sync state unchanged.
C23_ResolveAbsentIsNoOp ==
    [][\A c \in ResolveCalls : ResolvesAbsent(c) => appData'.sync = appData.sync]_vars

\* C23 as amended: a resolve of a key that is absent from its set changes
\* nothing but lastSuccessfulSyncAt, and a resolve applied twice gives what it
\* gives applied once, lastSuccessfulSyncAt apart.
C23_ResolveIdempotentOnSets ==
    /\ [][\A c \in ResolveCalls : ResolvesAbsent(c) => SameButStamp(appData', appData)]_vars
    /\ [](boot = "resolve" =>
            \A c \in ResolveCalls :
                SameButStamp(PassEffect(PassEffect(appData, c, TRUE, remote), c, TRUE, remote),
                             PassEffect(appData, c, TRUE, remote)))

\* The same resolve has been applied twice to a key that was in no set, while
\* the other key of its kind was pending: the sets are as before, the stamp
\* is not.
C23_Witness ==
    /\ boot = "resolve" /\ ops = 2
    /\ passLog.calls = <<Call("delProgress", "p1", NULL, NULL),
                         Call("delProgress", "p1", NULL, NULL)>>
    /\ bootDoc.sync.deletedProgressIds = <<>>
    /\ bootDoc.sync.progressPendingIds = <<"p1">>
    /\ SameButStamp(appData, bootDoc)
    /\ appData.sync.lastSuccessfulSyncAt # bootDoc.sync.lastSuccessfulSyncAt

\* ------------------------------------------- the knowledge progress (C24)
\* markLessonCompleted and recordQuizAttempt applied, up to MaxLessonOps times,
\* starting from the empty progress, to two lessons on two days.  `ops` counts
\* the calls and serves as the clock of attemptedAt.
MaxLessonOps == 4

ActivityDates == {"2026-02-17", "2026-02-18"}

markLessonCompleted(progress, lessonId, activityDate) ==
    [progress EXCEPT
        !.completedLessonIds = withUnique(@, lessonId),
        !.learningActivityDates = withUnique(@, activityDate)]

\* A recordQuizAttempt that does not read the existing entry.
recordQuizAttemptFromScratch(progress, lessonId, selectedIndex, correct, attemptedAt, activityDate) ==
    [completedLessonIds |-> withUnique(progress.completedLessonIds, lessonId),
     lessonQuizProgress |->
         [lesson \in DOMAIN progress.lessonQuizProgress \cup {lessonId} |->
             IF lesson = lessonId
             THEN [attempts |-> 1, correct |-> IF correct THEN 1 ELSE 0,
                   lastAttemptAt |-> attemptedAt, lastSelectedIndex |-> selectedIndex]
             ELSE progress.lessonQuizProgress[lesson]],
     learningActivityDates |-> withUnique(progress.learningActivityDates, activityDate)]

recordQuizAttempt(progress, lessonId, selectedIndex, correct, attemptedAt, activityDate) ==
    LET known == lessonId \in DOMAIN progress.lessonQuizProgress
        existing == progress.lessonQuizProgress[lessonId]
        nextEntry ==
            [attempts |-> (IF known THEN existing.attempts ELSE 0) + 1,
             correct |-> (IF known THEN existing.correct ELSE 0)
                         + (IF correct THEN 1 ELSE 0),
             lastAttemptAt |-> attemptedAt, lastSelectedIndex |-> selectedIndex]
    IN  [completedLessonIds |-> withUnique(progress.completedLessonIds, lessonId),
         lessonQuizProgress |->
             [lesson \in DOMAIN progress.lessonQuizProgress \cup {lessonId} |->
                 IF lesson = lessonId THEN nextEntry
                 ELSE progress.lessonQuizProgress[lesson]],
         learningActivityDates |-> withUnique(progress.learningActivityDates, activityDate)]

InitKnowledge ==
    /\ KnowledgeAtRest
    /\ appData = [createEmptyAppData EXCEPT !.auth = SignedIn]
    /\ store = appData
    /\ bootDoc = appData
    /\ boot = "knowledge"
    /\ remote = createDefaultAppData
    /\ isReady = TRUE
    /\ authToken = Token
    /\ syncing = FALSE
    /\ inflight = {}
    /\ passes = [p \in PassIds |-> IdlePass]
    /\ ops = 0
    /\ used = {}
    /\ gone = {}
    /\ delOk = {}
    /\ profileEdit = NULL
    /\ passLog = EmptyLog
    /\ calm = FALSE
    /\ wiped = {}
    /\ ServerAtRest
    /\ timers = TimersAtMount

KnowledgeFrame ==
    /\ UNCHANGED <<appData, store, isReady, boot, authToken, syncing, remote, inflight,
                   passes, used, gone, delOk, profileEdit, passLog, bootDoc, wiped, calm,
                   serverVars>>
    /\ DebounceEffect

MarkLessonCompletedStep(lessonId, activityDate) ==
    /\ boot = "knowledge" /\ ops < MaxLessonOps
    /\ knowledge' = markLessonCompleted(knowledge, lessonId, activityDate)
    /\ ops' = ops + 1
    /\ UNCHANGED quizCalls
    /\ KnowledgeFrame

RecordQuizAttemptStep(lessonId, selectedIndex, correct, activityDate) ==
    /\ boot = "knowledge" /\ ops < MaxLessonOps
    /\ knowledge' = recordQuizAttempt(knowledge, lessonId, selectedIndex, correct,
                                      ops + 1, activityDate)
    /\ quizCalls' = [quizCalls EXCEPT ![lessonId] = @ + 1]
    /\ ops' = ops + 1
    /\ KnowledgeFrame

NextKnowledge ==
    \/ \E lessonId \in Lessons : \E activityDate \in ActivityDates :
          MarkLessonCompletedStep(lessonId, activityDate)
    \/ \E lessonId \in Lessons : \E selectedIndex \in {0, 1} : \E correct \in BOOLEAN :
          \E activityDate \in ActivityDates :
              RecordQuizAttemptStep(lessonId, selectedIndex, correct, activityDate)

SpecKnowledge == InitKnowledge /\ [][NextKnowledge]_vars

NoDuplicates(items) == Cardinality(Range(items)) = Len(items)

\* C24: after any sequence of markLessonCompleted and recordQuizAttempt from
\* the empty progress, completedLessonIds and learningActivityDates hold no
\* value twice, and every lesson's quiz entry has correct <= attempts and
\* attempts equal to the number of recordQuizAttempt calls made for it (a
\* lesson without entry has had none).
C24_KnowledgeProgressConsistent ==
    boot = "knowledge" =>
        /\ NoDuplicates(knowledge.completedLessonIds)
        /\ NoDuplicates(knowledge.learningActivityDates)
        /\ \A lesson \in Lessons :
              IF lesson \in DOMAIN knowledge.lessonQuizProgress
              THEN /\ knowledge.lessonQuizProgress[lesson].correct
                        <= knowledge.lessonQuizProgress[lesson].attempts
                   /\ knowledge.lessonQuizProgress[lesson].attempts = quizCalls[lesson]
              ELSE quizCalls[lesson] = 0

\* A lesson was completed twice on one day and then answered wrongly and
\* rightly: one id, one date, two attempts, one of them correct.
C24_Witness ==
    /\ boot = "knowledge" /\ ops = 4
    /\ knowledge.completedLessonIds = <<"lesson-2">>
    /\ knowledge.learningActivityDates = <<"2026-02-17">>
    /\ quizCalls["lesson-2"] = 2
    /\ knowledge.lessonQuizProgress["lesson-2"].attempts = 2
    /\ knowledge.lessonQuizProgress["lesson-2"].correct = 1

\* --------------------------------------- the order of a pass (C25, C26)
\* The remote calls of the pass of SpecPass in the order they were issued:
\* those that have returned, then the one awaited.
IssuedCalls ==
    [i \in DOMAIN LoggedCalls |-> LoggedCalls[i].call]
    \o (IF \E p \in PassIds : Running(p)
        THEN <<passes[CHOOSE p \in PassIds : Running(p)].awaiting>> ELSE <<>>)

PhaseOf(c) ==
    CASE c.op = "delWorkout"    -> 1
      [] c.op = "delNutrition"  -> 2
      [] c.op = "delProgress"   -> 3
      [] c.op = "pushProfile"   -> 4
      [] c.op = "pushNutrition" -> 5
      [] c.op = "pushProgress"  -> 6
      [] c.op = "pushWorkout"   -> 7
      [] OTHER                  -> 8

\* C25: the calls of a pass are issued in phase order (workout deletes,
\* nutrition deletes, progress deletes, profile, nutrition, progress,
\* workouts), and the snapshot fetch is issued only when every other call the
\* pass captured has returned.
C25_PhaseOrder ==
    /\ \A i, j \in DOMAIN IssuedCalls :
          i < j => PhaseOf(IssuedCalls[i]) <= PhaseOf(IssuedCalls[j])
    /\ \A i \in DOMAIN IssuedCalls :
          IssuedCalls[i].op = "fetchSnapshot"
          => /\ i = Len(IssuedCalls)
             /\ CapturedWork(passLog.start) \subseteq AttemptedCalls

\* A pass with a pull has ended after calls of at least five phases, the
\* snapshot fetch last.
C25_Witness ==
    /\ passLog.done
    /\ Cardinality({PhaseOf(IssuedCalls[i]) : i \in DOMAIN IssuedCalls}) >= 5
    /\ IssuedCalls[Len(IssuedCalls)].op = "fetchSnapshot"
    /\ \E i \in DOMAIN LoggedCalls : LoggedCalls[i].outcome = "fail"

\* In SpecPass the one pass was started by Sync Now iff a user action is
\* counted.
StartedByTimer == passLog # EmptyLog /\ ops = 0

\* C26: a pass the debounce timer started issues no snapshot fetch (so it
\* runs no merge); a snapshot fetch is issued only by the pass Sync Now
\* started, as the last call after its pushes.
C26_TimerPassNeverPulls ==
    \A i \in DOMAIN IssuedCalls :
        IssuedCalls[i].op = "fetchSnapshot"
        => /\ ~StartedByTimer
           /\ \A j \in DOMAIN IssuedCalls : j < i => PhaseOf(IssuedCalls[j]) < 8

\* A pass the timer started has ended after three or more calls.
C26_Witness ==
    /\ StartedByTimer /\ passLog.done
    /\ Len(IssuedCalls) >= 3
    /\ \A i \in DOMAIN IssuedCalls : IssuedCalls[i].op # "fetchSnapshot"

\* C27: while the pending total is nonzero, auth.userId is set and no pass is
\* running, exactly one automatic pass is scheduled; there is never a second
\* one; and none is scheduled while a pass is running or while the pending
\* total is zero.
C27_OneTimerWhenDue ==
    /\ timers <= 1
    /\ (/\ isReady /\ appData.auth.userId # "null" /\ PendingTotal(appData) # 0
        /\ ~syncing /\ RunningPasses = {})
       => timers = 1
    /\ (RunningPasses # {} \/ PendingTotal(appData) = 0) => timers = 0

\* ------------------------------------------ local edits the remote lacks
\* The local record of a key is not the copy the remote holds.
NutritionDiffers(d) ==
    \/ d \notin DOMAIN remote.nutritionByDate
    \/ remote.nutritionByDate[d].ver # appData.nutritionByDate[d].ver

ProgressDiffers(i) ==
    \A j \in DOMAIN remote.progressEntries :
        \/ remote.progressEntries[j].id # appData.progressEntries[i].id
        \/ remote.progressEntries[j].ver # appData.progressEntries[i].ver

\* C28: every local nutrition log, progress entry or profile that the remote
\* has not accepted is pending or tombstoned, in every reachable state (the
\* mark is made in the same state update as the edit, before the push).
C28_UnacceptedEditIsMarked ==
    /\ \A d \in DOMAIN appData.nutritionByDate :
          NutritionDiffers(d) =>
              \/ Includes(appData.sync.nutritionPendingDates, d)
              \/ Includes(appData.sync.deletedNutritionDates, d)
    /\ \A i \in DOMAIN appData.progressEntries :
          ProgressDiffers(i) =>
              \/ Includes(appData.sync.progressPendingIds, appData.progressEntries[i].id)
              \/ Includes(appData.sync.deletedProgressIds, appData.progressEntries[i].id)
    /\ (appData.profile # NULL /\ remote.profile # appData.profile)
          => appData.sync.profilePending

\* The remote's copy of a workout is the version it accepted last.
RemoteHoldsWorkout(workout) ==
    \E j \in DOMAIN remote.workouts :
        /\ remote.workouts[j].id = workout.id
        /\ remote.workouts[j].ver = workout.ver

\* C29: a live workout has a non-null syncedAt only if the version the remote
\* most recently accepted for its id is the current local version.
C29_SyncedMeansRemoteHasIt ==
    \A i \in DOMAIN appData.workouts :
        appData.workouts[i].syncedAt # NULL => RemoteHoldsWorkout(appData.workouts[i])

\* No handler's call and no pass's call is awaited.
NoRequestInFlight == inflight = {} /\ RunningPasses = {}

\* C30: when no request is in flight, every nutrition date and progress id
\* whose local record is not the copy the remote holds is in its pending set.
C30_DifferingRecordIsPending ==
    NoRequestInFlight =>
        /\ \A d \in DOMAIN appData.nutritionByDate :
              NutritionDiffers(d) => Includes(appData.sync.nutritionPendingDates, d)
        /\ \A i \in DOMAIN appData.progressEntries :
              ProgressDiffers(i) =>
                  Includes(appData.sync.progressPendingIds, appData.progressEntries[i].id)

\* ------------------------------------------------- stale pending entries
\* The pending dates and ids a pass captured whose record is not in the capture.
StaleDates(start) ==
    {d \in Range(start.sync.nutritionPendingDates) :
        /\ ~Includes(start.sync.deletedNutritionDates, d)
        /\ d \notin DOMAIN start.nutritionByDate}

StaleIds(start) ==
    {id \in Range(start.sync.progressPendingIds) :
        /\ ~Includes(start.sync.deletedProgressIds, id)
        /\ id \notin Ids(start.progressEntries)}

CallsFor(opNames, key) ==
    {i \in DOMAIN LoggedCalls : LoggedCalls[i].call.op \in opNames /\ LoggedCalls[i].call.key = key}

\* C31: when a pass has ended, every pending nutrition date and progress id it
\* captured without a local record has left its pending set, no remote call was
\* made for it, and the items after it were still attempted.
C31_StaleResolvedWithoutCall ==
    passLog.done =>
        /\ \A d \in StaleDates(passLog.start) :
              /\ ~Includes(appData.sync.nutritionPendingDates, d)
              /\ CallsFor({"pushNutrition", "delNutrition"}, d) = {}
        /\ \A id \in StaleIds(passLog.start) :
              /\ ~Includes(appData.sync.progressPendingIds, id)
              /\ CallsFor({"pushProgress", "delProgress"}, id) = {}
        /\ (StaleDates(passLog.start) \cup StaleIds(passLog.start) # {})
              => CapturedWork(passLog.start) \subseteq AttemptedCalls

C31_Witness ==
    /\ passLog.done
    /\ Len(passLog.start.sync.nutritionPendingDates) >= 2
    /\ passLog.start.sync.nutritionPendingDates[1] \in StaleDates(passLog.start)
    /\ CallsFor({"pushNutrition"}, passLog.start.sync.nutritionPendingDates[2]) # {}
    /\ StaleIds(passLog.start) # {}
    /\ \E i \in DOMAIN LoggedCalls : LoggedCalls[i].call.op = "pushWorkout"

\* ------------------------------------------------ pushes and tombstones
\* The calls a step sends: a handler's new call or the call a pass now awaits.
SentCalls ==
    (inflight' \ inflight)
    \cup {passes'[p].awaiting : p \in {q \in PassIds : passes'[q].awaiting # passes[q].awaiting}}

Tombstoned(data, c) ==
    CASE c.op = "pushWorkout"   -> Includes(data.sync.deletedWorkoutIds, c.key)
      [] c.op = "pushNutrition" -> Includes(data.sync.deletedNutritionDates, c.key)
      [] c.op = "pushProgress"  -> Includes(data.sync.deletedProgressIds, c.key)
      [] OTHER                  -> FALSE

\* C32: no push of a nutrition log, progress entry or workout is sent while its
\* key is in the tombstone set of its kind.
C32_NoPushOfTombstoned ==
    [][\A c \in SentCalls : ~Tombstoned(appData', c)]_vars

\* ------------------------------------------------ termination of a pass
\* Every remote call returns: fetchWithTimeout aborts a request after its
\* timeout, and the api functions turn the abort into a failure result.
PassFairness ==
    WF_vars(\E p \in PassIds, outcome \in PassOutcomes : LoggedPassReply(p, outcome))

\* Termination is checked on the start documents with a tombstoned date, a
\* pending date with a log and a stale pending date, for each combination of
\* the other kinds; the outcomes of the calls stay free.
InitPassLive ==
    /\ InitPass
    /\ appData.sync.nutritionPendingDates = <<"d1", "d2">>
    /\ appData.sync.deletedNutritionDates = <<"d3">>
    /\ DOMAIN appData.nutritionByDate = {"d1"}

SpecPassLive == InitPassLive /\ [][NextPass]_vars /\ PassFairness

\* C33: a started pass eventually finishes whatever the outcomes of its calls,
\* and the running flag does not stay true for ever.
C33_PassTerminates ==
    /\ \A p \in PassIds : Running(p) ~> ~Running(p)
    /\ syncing ~> ~syncing

C33_Witness ==
    /\ passLog.done
    /\ ~syncing
    /\ RunningPasses = {}
    /\ Len(LoggedCalls) >= 3
    /\ \A i \in DOMAIN LoggedCalls : LoggedCalls[i].outcome = "fail"

\* ------------------------------------------------ lastSuccessfulSyncAt
\* C34: when a pass has ended and every remote call it made failed,
\* lastSuccessfulSyncAt is what it was when the pass started.
C34_StampOnlyAfterSuccess ==
    (/\ passLog.done
     /\ \A i \in DOMAIN LoggedCalls : LoggedCalls[i].outcome = "fail")
    => appData.sync.lastSuccessfulSyncAt = passLog.start.sync.lastSuccessfulSyncAt

\* ------------------------------- the merge across kinds and sparse snapshots
\* Local documents and snapshots whose records of different kinds share the
\* keys k1 and k2, with every combination of tombstones, and snapshots that
\* lack a list or the map.
SharedWorkout(id, ver) ==
    [id |-> id, date |-> 1, createdAt |-> 1, ver |-> ver, exerciseEntries |-> "list",
     syncedAt |-> NULL]

SnapshotFields == {"workouts", "nutritionByDate", "progressEntries"}

SparseSnapshot(fields, w, n, g) ==
    [f \in {"profile"} \cup fields |->
        CASE f = "workouts" -> w
          [] f = "nutritionByDate" -> n
          [] f = "progressEntries" -> g
          [] OTHER -> NULL]

CrossKindMergeInputs ==
    {<<MergeLocal(NULL, w, n, g,
                  [EmptySync EXCEPT !.deletedWorkoutIds = dw,
                                    !.deletedNutritionDates = dn,
                                    !.deletedProgressIds = dp]),
       SparseSnapshot(fields, rw, rn, rg)>> :
        w \in UpToOne({SharedWorkout("k1", 1)}),
        n \in {EmptyMap, [d \in {"k1"} |-> MakeNutritionLog(d, 1)]},
        g \in UpToOne({MakeProgressEntry("k1", 1)}),
        dw \in {<<>>, <<"k1">>}, dn \in {<<>>, <<"k1">>}, dp \in {<<>>, <<"k2">>},
        fields \in SUBSET SnapshotFields,
        rw \in {<<SharedWorkout("k2", 2)>>},
        rn \in {[d \in {"k2"} |-> MakeNutritionLog(d, 2)]},
        rg \in {<<MakeProgressEntry("k2", 2)>>, <<MakeProgressEntry("k1", 2)>>}}

InitMergeSparse ==
    /\ \E input \in CrossKindMergeInputs :
          /\ appData = input[1]
          /\ bootDoc = input[1]
          /\ store = input[1]
          /\ remote = input[2]
    /\ boot \in {"merge", "pull"}
    /\ isReady = TRUE
    /\ authToken = Token
    /\ syncing = FALSE
    /\ inflight = {}
    /\ passes = [p \in PassIds |-> IdlePass]
    /\ ops = 0
    /\ used = {}
    /\ gone = {}
    /\ delOk = {}
    /\ profileEdit = NULL
    /\ passLog = EmptyLog
    /\ calm = FALSE
    /\ wiped = {}
    /\ ServerAtRest
    /\ KnowledgeAtRest
    /\ timers = TimersAtMount

SpecMergeSparse == InitMergeSparse /\ [][NextMerge]_vars

\* C35: every workout, nutrition date and progress entry of the local data or
\* of the snapshot whose key is not in the tombstone set of its own kind is in
\* the merge output, whatever the other kinds' tombstone sets hold and
\* whichever lists the snapshot lacks.
C35_UnionOfUntombstoned ==
    Merged =>
        /\ (Ids(bootDoc.workouts) \cup Ids(OrEmpty(remote, "workouts", <<>>)))
               \ Range(bootDoc.sync.deletedWorkoutIds)
           \subseteq Ids(appData.workouts)
        /\ ((DOMAIN bootDoc.nutritionByDate)
               \cup (DOMAIN OrEmpty(remote, "nutritionByDate", EmptyMap)))
               \ Range(bootDoc.sync.deletedNutritionDates)
           \subseteq DOMAIN appData.nutritionByDate
        /\ (Ids(bootDoc.progressEntries) \cup Ids(OrEmpty(remote, "progressEntries", <<>>)))
               \ Range(bootDoc.sync.deletedProgressIds)
           \subseteq Ids(appData.progressEntries)

\* A merge with a snapshot that lacks its workouts, where the key k1 is
\* tombstoned as a nutrition date and kept as a workout.
C35_Witness ==
    /\ Merged
    /\ "workouts" \notin DOMAIN remote
    /\ "progressEntries" \in DOMAIN remote
    /\ bootDoc.sync.deletedNutritionDates = <<"k1">>
    /\ bootDoc.sync.deletedWorkoutIds = <<>>
    /\ "k1" \in Ids(bootDoc.workouts)
    /\ "k1" \in Ids(appData.workouts)
    /\ "k1" \in DOMAIN bootDoc.nutritionByDate
    /\ "k1" \notin DOMAIN appData.nutritionByDate
    /\ "k2" \in Ids(appData.progressEntries)

\* --------------------------------------- a pass across a change of session
\* One logged pass of the first session, with logout and login (on the auth
\* screen, which is shown while nobody is signed in) at any moment.  The api
\* module attaches `authToken` to a request when the request is made.
Sessions == {SignedIn, [userId |-> "u2", token |-> "tok2"]}

SessionFrame ==
    /\ UNCHANGED <<isReady, boot, syncing, passes, ops, used, gone, delOk, profileEdit,
                   passLog, bootDoc, wiped, calm, serverVars, knowledgeVars>>
    /\ DebounceEffect

\* handleLogout, when logoutAuth has returned.
handleLogout ==
    /\ appData.auth.userId # "null"
    /\ authToken' = "null"
    /\ Commit(createEmptyAppData)
    /\ UNCHANGED <<remote, inflight>>
    /\ SessionFrame

\* handleLogin / handleRegister, when the login call has returned: applyAuthSession
\* up to its `await fetchSnapshot()`.
applyAuthSession(auth) ==
    /\ appData.auth.userId = "null"
    /\ authToken' = auth.token
    /\ Commit([createEmptyAppData EXCEPT !.auth = auth])
    /\ Issue(Call("sessionSnapshot", "", NULL, NULL))
    /\ UNCHANGED remote
    /\ SessionFrame

\* applyAuthSession after the fetch: the account of the session holds nothing
\* or what the remote holds.
ApplyAuthSessionReply(outcome, snapshot) ==
    /\ Call("sessionSnapshot", "", NULL, NULL) \in inflight
    /\ inflight' = inflight \ {Call("sessionSnapshot", "", NULL, NULL)}
    /\ Commit(IF Seen(outcome) THEN ApplySnapshot(appData, snapshot) ELSE appData)
    /\ UNCHANGED <<authToken, remote>>
    /\ SessionFrame

NextSession ==
    \/ TimerPass
    \/ SyncNowPass
    \/ \E p \in PassIds, outcome \in PassOutcomes : LoggedPassReply(p, outcome)
    \/ handleLogout
    \/ \E auth \in Sessions : applyAuthSession(auth)
    \/ \E outcome \in PassOutcomes, snapshot \in {createDefaultAppData, ServerSnapshot(remote)} :
          ApplyAuthSessionReply(outcome, snapshot)

SpecSession == InitPassLive /\ [][NextSession]_vars

RecordPushes == {"pushProfile", "pushWorkout", "pushNutrition", "pushProgress"}

\* C36: a pass sends every record it pushes with the token of the session it
\* was started in, never with another session's token and never without one.
C36_PassKeepsItsIdentity ==
    [][\A p \in PassIds :
          (/\ passes'[p].awaiting # passes[p].awaiting
           /\ passes'[p].awaiting.op \in RecordPushes)
          => authToken' = passLog'.start.auth.token]_vars

\* ------------------------------------------- sequences of pushes and deletes
MaxUpserts == 4

UpsertCalls ==
    {Call("pushWorkout", id, ver, NULL) : id \in {"w1", "w2"}, ver \in 1..2}
    \cup {Call("pushProgress", id, ver, NULL) : id \in {"p1", "p2"}, ver \in 1..2}
    \cup {Call("delWorkout", id, NULL, NULL) : id \in {"w1", "w2"}}
    \cup {Call("delProgress", id, NULL, NULL) : id \in {"p1", "p2"}}

InitUpsert ==
    /\ appData = createEmptyAppData
    /\ bootDoc = appData
    /\ store = appData
    /\ boot = "upsert"
    /\ remote = createDefaultAppData
    /\ isReady = TRUE
    /\ authToken = Token
    /\ syncing = FALSE
    /\ inflight = {}
    /\ passes = [p \in PassIds |-> IdlePass]
    /\ ops = 0
    /\ used = {}
    /\ gone = {}
    /\ delOk = {}
    /\ profileEdit = NULL
    /\ passLog = EmptyLog
    /\ calm = FALSE
    /\ wiped = {}
    /\ ServerAtRest
    /\ KnowledgeAtRest
    /\ timers = TimersAtMount

\* One request of the user served to its end: the route reads the user's
\* data, upserts or filters, sorts and writes it back.
UpsertStep(c) ==
    /\ boot = "upsert" /\ ops < MaxUpserts
    /\ remote' = ServerApply(remote, c)
    /\ passLog' = [passLog EXCEPT !.calls = Append(@, c)]
    /\ ops' = ops + 1
    /\ UNCHANGED <<appData, store, isReady, boot, authToken, syncing, inflight, passes,
                   used, gone, delOk, profileEdit, bootDoc, wiped, calm, serverVars,
                   knowledgeVars>>
    /\ DebounceEffect

NextUpsert == \E c \in UpsertCalls : UpsertStep(c)

SpecUpsert == InitUpsert /\ [][NextUpsert]_vars

\* C37: after any sequence of workout and progress pushes and deletes of one
\* user, the user's stored workouts and progress entries hold each id at most
\* once, and a pushed id is held with the body of its latest push.
C37_UpsertById ==
    /\ \A id \in Ids(remote.workouts) : Occurrences(remote.workouts, id) = 1
    /\ \A id \in Ids(remote.progressEntries) : Occurrences(remote.progressEntries, id) = 1
    /\ \A i \in DOMAIN passLog.calls :
          LET c == passLog.calls[i]
              later == {j \in DOMAIN passLog.calls :
                          j > i /\ passLog.calls[j].key = c.key}
          IN  /\ (c.op = "pushWorkout" /\ later = {})
                    => \E w \in Range(remote.workouts) : w.id = c.key /\ w.ver = c.body
              /\ (c.op = "pushProgress" /\ later = {})
                    => \E e \in Range(remote.progressEntries) :
                          e.id = c.key /\ e.ver = c.body

\* A workout and a progress entry were each pushed twice with different
\* bodies, and the store holds each once, with the second body.
C37_Witness ==
    /\ \E i, j \in DOMAIN passLog.calls :
          /\ i < j
          /\ passLog.calls[i] = Call("pushWorkout", "w1", 1, NULL)
          /\ passLog.calls[j] = Call("pushWorkout", "w1", 2, NULL)
    /\ \E i, j \in DOMAIN passLog.calls :
          /\ i < j
          /\ passLog.calls[i] = Call("pushProgress", "p1", 1, NULL)
          /\ passLog.calls[j] = Call("pushProgress", "p1", 2, NULL)
    /\ Occurrences(remote.workouts, "w1") = 1
    /\ Occurrences(remote.progressEntries, "p1") = 1
    /\ \E w \in Range(remote.workouts) : w.id = "w1" /\ w.ver = 2

\* ------------------------------------- overlapping requests of one user
\* Two sessions of the same user (two sign-ins), so that two of the user's
\* requests can be served at the same time.
OneUserSessions == {<<"tA", "uA">>, <<"tB", "uA">>}

\* Writes that touch different records.
OverlapRoutes ==
    {Call("pushWorkout", "w1", 1, NULL), Call("pushNutrition", "d1", 1, NULL),
     Call("pushProgress", "p1", 1, NULL)}

InitOverlap ==
    /\ activeBackend \in {"file", "postgres"}
    /\ fallbackReason = "null"
    /\ fileCache = <<>>
    /\ dataFile = [createDefaultFileStoreData EXCEPT !.sessions = OneUserSessions]
    /\ postgres = [createDefaultFileStoreData EXCEPT !.sessions = OneUserSessions]
    /\ requests = [t \in Tokens |-> IdleRequest]
    /\ responses = [t \in Tokens |-> NoResponse]
    /\ appData = createEmptyAppData
    /\ store = createEmptyAppData
    /\ isReady = FALSE
    /\ boot = "server"
    /\ authToken = "null"
    /\ syncing = FALSE
    /\ remote = createDefaultAppData
    /\ inflight = {}
    /\ passes = [p \in PassIds |-> IdlePass]
    /\ ops = 0
    /\ used = {}
    /\ gone = {}
    /\ delOk = {}
    /\ profileEdit = NULL
    /\ passLog = EmptyLog
    /\ bootDoc = createEmptyAppData
    /\ wiped = {}
    /\ calm = FALSE
    /\ KnowledgeAtRest
    /\ timers = TimersAtMount

NextOverlap ==
    \/ \E t \in Tokens : \E route \in OverlapRoutes : Receive(t, route)
    \/ \E t \in Tokens : StoreCall(t)
    \/ \E t \in Tokens : \E outcome \in {"ok", "fail"} : PostgresReply(t, outcome)
    \/ \E t \in Tokens : FallThrough(t)
    \/ \E t \in Tokens : ReadFileReply(t)

SpecOverlap == InitOverlap /\ [][NextOverlap]_vars

\* The record that the write request c stores is in `data`.
Stored(data, c) ==
    CASE c.op = "pushWorkout"   -> c.key \in Ids(data.workouts)
      [] c.op = "pushNutrition" -> c.key \in DOMAIN data.nutritionByDate
      [] c.op = "pushProgress"  -> c.key \in Ids(data.progressEntries)
      [] OTHER                  -> TRUE

\* C38: once two write requests of one user that touch different records have
\* both been answered with success, the user's stored data holds the record of
\* each of them, on the file backend and on the Postgres backend (no fallback
\* having happened).
C38_BothWritesStored ==
    \A t, u \in Tokens :
        (/\ t # u
         /\ fallbackReason = "null"
         /\ responses[t].status = 200 /\ responses[u].status = 200
         /\ responses[t].userId = responses[u].userId
         /\ responses[t].route.key # responses[u].route.key)
        => /\ Stored(ReadNow(responses[t].userId), responses[t].route)
           /\ Stored(ReadNow(responses[t].userId), responses[u].route)

====
